---- MODULE Spec2Model ----
(***************************************************************************)
(* Amortization and valuation engine of the loan reporting platform        *)
(* (loanEngine.js, valuationEngine.js, users.js).                          *)
(*                                                                         *)
(* Money is fixed point: Unit units to the dollar inside the schedule      *)
(* loop (the code's doubles), whole cents in the fields of a row (the      *)
(* code's +x.toFixed(2)).  A date string "YYYY-MM-DD" is the integer       *)
(* month * 100 + day, month counting calendar months; a Date anchored on   *)
(* the first of a month is that month number.  Values that are not dates   *)
(* (undefined, null, "", an unparseable string, a non-string) are the      *)
(* negative codes below.                                                   *)
(***************************************************************************)
EXTENDS Integers, Sequences, FiniteSets, TLC

\* ------------------------------------------------------------------
\* Bounds of the model
\* ------------------------------------------------------------------
MaxTermYears == 1
MaxGraceYears == 1
MaxDeferMonths == 3

\* ------------------------------------------------------------------
\* Representation
\* ------------------------------------------------------------------
Unit == 100 * 100
PowScale == 10000 * 10000
StartMonth == 2024 * 12 + 2

DUndefined == 0 - 1
DNull == 0 - 2
DEmpty == 0 - 3
DMalformed == 0 - 4
DNonString == 0 - 5
USBase == 1000 * 1000 * 10

MkDate(m, d) == m * 100 + d
MkUSDate(m, d) == USBase + MkDate(m, d)
IsISO(x) == x > 0 /\ x < USBase
IsUS(x) == x >= USBase
NoMonth == 0 - 1

Min(a, b) == IF a <= b THEN a ELSE b
Max(a, b) == IF a >= b THEN a ELSE b

\* The value of the one element of a singleton set.  Binding a value as
\* x \in {e} makes the model checker evaluate e once, where it stands.
The(S) == CHOOSE x \in S : TRUE

\* a * b = q * c + r, <<q, r>> with 0 <= r < c, for a, b >= 0 and c > 0,
\* without forming the product a * b (binary long multiplication).
MulDivStep(h, a, b, c) ==
  LET q2 == 2 * h[1] + (IF b % 2 = 1 THEN a \div c ELSE 0)
      r2 == 2 * h[2] + (IF b % 2 = 1 THEN a % c ELSE 0)
  IN <<q2 + (r2 \div c), r2 % c>>

RECURSIVE MulDivQR(_, _, _)
MulDivQR(a, b, c) ==
  IF b = 0 THEN <<0, 0>>
  ELSE The({MulDivStep(h, a, b, c) : h \in {MulDivQR(a, b \div 2, c)}})

\* a * b / c rounded to the nearest integer
MulDiv(a, b, c) ==
  The({(IF 2 * qr[2] >= c THEN qr[1] + 1 ELSE qr[1]) :
         qr \in {MulDivQR(x[1], x[2], c) : x \in {<<a, b>>}}})

\* x * monthlyRate, monthlyRate = nominalRate / 12, the annual rate in
\* basis points.
TimesMonthlyRate(x, bps) == MulDiv(x, bps, 12 * 10000)

\* acc * (1 + monthlyRate)^n, four factors at a time while there are four
RECURSIVE PowOnePlusRate(_, _, _)
PowOnePlusRate(bps, n, acc) ==
  IF n = 0 THEN acc
  ELSE IF n < 4
  THEN The({PowOnePlusRate(bps, n - 1, v) :
              v \in {acc + TimesMonthlyRate(acc, bps)}})
  ELSE The({PowOnePlusRate(bps, n - 4, v4) :
              v4 \in {v3 + TimesMonthlyRate(v3, bps) :
                v3 \in {v2 + TimesMonthlyRate(v2, bps) :
                  v2 \in {v1 + TimesMonthlyRate(v1, bps) :
                    v1 \in {acc + TimesMonthlyRate(acc, bps)}}}}})

\* +x.toFixed(2): units to whole cents, half away from zero
ToFixed2(x) ==
  IF x >= 0 THEN (x + 50) \div 100 ELSE 0 - ((50 - x) \div 100)

\* ------------------------------------------------------------------
\* State
\* ------------------------------------------------------------------
VARIABLES
  pc,                     \* position of the call being modelled
  entry,                  \* which entry point the caller used
  raw,                    \* the loan record as stored (input)
  loan,                   \* the loan object handed to buildAmortSchedule
  USERS,                  \* users.js module state
  VALUATION_CURVES,       \* valuationEngine.js module state (loaded or null)
  schedule,               \* buildAmortSchedule: const schedule = []
  balance,                \* buildAmortSchedule: let balance
  calendarDate,           \* buildAmortSchedule: let calendarDate (a month)
  i,                      \* buildAmortSchedule: loop counter
  deferralRemaining,
  deferralTotal,
  purchaseMonth,          \* buildAmortSchedule: const purchaseMonth
  originalMonthlyPayment, \* buildAmortSchedule: const originalMonthlyPayment
  log,                    \* console.warn diagnostics, in order
  error,                  \* the Error thrown, "none" while none is
  result                  \* what valueLoan returned, "none" while nothing

VARIABLES
  today,                  \* the wall clock, new Date(), as a calendar month
  borrower,               \* valueLoan: the borrower argument
  profile,                \* valueLoan: profile.assumptions
  SCHOOLTIERS,            \* valuationEngine.js module state
  vl,                     \* valueLoan: its local variables
  irr,                    \* calculateIRR: its local variables
  callNo,                 \* how many calls of valueLoan have returned
  previous,               \* what the earlier call of valueLoan returned
  loans,                  \* computePortfolioValuation: filteredLoans
  nextLoan,               \* computePortfolioValuation: position in the map
  totals,                 \* computePortfolioValuation: the running totals
  fn,                     \* the exported function applied on its own
  out                     \* what that function returned

\* The worker: the files it keeps on GitHub and every client's load and
\* save in flight.
VARIABLES
  remote

valuationVars == <<today, borrower, profile, SCHOOLTIERS, vl, irr, callNo,
                   previous, loans, nextLoan, totals, fn, out>>

vars == <<pc, entry, raw, loan, USERS, VALUATION_CURVES, schedule, balance,
          calendarDate, i, deferralRemaining, deferralTotal, purchaseMonth,
          originalMonthlyPayment, log, error, result, valuationVars, remote>>

loopVars == <<schedule, balance, calendarDate, i, deferralRemaining,
              deferralTotal, purchaseMonth, originalMonthlyPayment>>

\* the worker's state while only the engines run
NoRemote == [files |-> <<>>, clients |-> <<>>]

\* ------------------------------------------------------------------
\* users.js
\* ------------------------------------------------------------------
UsersFallback ==
  [u \in {"jeff", "nick", "john", "market"} |->
     CASE u = "jeff" -> [role |-> "customer", feeWaiver |-> "all"]
       [] u = "nick" -> [role |-> "lender", feeWaiver |-> "setup"]
       [] u = "john" -> [role |-> "investor", feeWaiver |-> "none"]
       [] OTHER -> [role |-> "market", feeWaiver |-> "none"]]

\* a table loaded from platformConfig: lenders with each kind of waiver
UsersLoaded ==
  [u \in {"lena", "gary", "john"} |->
     CASE u = "lena" -> [role |-> "lender", feeWaiver |-> "none"]
       [] u = "gary" -> [role |-> "lender", feeWaiver |-> "grace"]
       [] OTHER -> [role |-> "investor", feeWaiver |-> "none"]]

\* USERS[userId]?.feeWaiver || "none"
getUserFeeWaiver(users, userId) ==
  IF userId \in DOMAIN users /\ users[userId].feeWaiver # ""
  THEN users[userId].feeWaiver ELSE "none"

\* ------------------------------------------------------------------
\* loanEngine.js helpers
\* ------------------------------------------------------------------
resolveUserForLoan(ln) ==
  IF ln.owner # "null" THEN ln.owner
  ELSE IF Len(ln.ownershipLots) = 1 THEN ln.ownershipLots[1].user
  ELSE ln.user

\* effectiveWaiver.toLowerCase().replace("+", "_").split("_"); replace
\* rewrites the first "+" only
WaiverTokens(w) ==
  CASE w = "none" -> {"none"}
    [] w = "all" -> {"all"}
    [] w = "ALL" -> {"all"}
    [] w = "setup" -> {"setup"}
    [] w = "grace" -> {"grace"}
    [] w = "setup_grace" -> {"setup", "grace"}
    [] w = "Setup_Grace" -> {"setup", "grace"}
    [] w = "setup+grace" -> {"setup", "grace"}
    [] w = "grace+setup+all" -> {"grace", "setup+all"}
    [] OTHER -> {w}

\* variant: the user-level waiver beats the loan-level one
resolveFeeWaiverFlags_UserFirst(users, userId, ln) ==
  LET userWaiver == getUserFeeWaiver(users, userId)
      loanWaiver == IF ln.feeWaiver \in {"", "null"} THEN "none" ELSE ln.feeWaiver
      effectiveWaiver == IF userWaiver # "none" THEN userWaiver ELSE loanWaiver
      tokens == WaiverTokens(effectiveWaiver)
  IN [waiveSetup |-> ("setup" \in tokens) \/ ("all" \in tokens),
      waiveMonthly |-> ("grace" \in tokens) \/ ("all" \in tokens),
      waiveAll |-> "all" \in tokens]

\* loan?.feeWaiver || "none": a missing or empty loan waiver is "none"
resolveFeeWaiverFlags(users, userId, ln) ==
  LET userWaiver == getUserFeeWaiver(users, userId)
      loanWaiver == IF ln.feeWaiver \in {"", "null"} THEN "none" ELSE ln.feeWaiver
      effectiveWaiver == IF loanWaiver # "none" THEN loanWaiver ELSE userWaiver
      tokens == WaiverTokens(effectiveWaiver)
  IN [waiveSetup |-> ("setup" \in tokens) \/ ("all" \in tokens),
      waiveMonthly |-> ("grace" \in tokens) \/ ("all" \in tokens),
      waiveAll |-> "all" \in tokens]

\* parseISODateLocal: a Date (valid or Invalid Date), null, or a throw
parseISODateLocal(iso) ==
  IF iso \in {DUndefined, DNull, DEmpty} THEN [kind |-> "null", m |-> NoMonth]
  ELSE IF iso = DNonString THEN [kind |-> "throw", m |-> NoMonth]
  ELSE IF IsISO(iso) THEN [kind |-> "date", m |-> iso \div 100]
  ELSE [kind |-> "invalid", m |-> NoMonth]

monthKeyFromISO(iso) == iso \div 100

monthKeyFromDate(m) == m

\* normalizeDate: "" for a falsy value, ISO kept, MM/DD/YYYY rewritten to
\* ISO, anything else returned as it is (with a warning)
normalizeDate(d) ==
  IF d \in {DUndefined, DNull, DEmpty} THEN DEmpty
  ELSE IF IsISO(d) THEN d
  ELSE IF IsUS(d) THEN d - USBase
  ELSE d

normalizeDateWarns(d) == d = DMalformed

normalizeDateThrows(d) == d = DNonString

\* variant: the last of the sorted lot dates instead of the first
EarliestDate_Last(S) == CHOOSE x \in S : \A y \in S : x >= y

\* lotDates.sort()[0]
EarliestDate(S) == CHOOSE x \in S : \A y \in S : x <= y

\* loadLoans: the purchaseDate of the normalized loan
LoadedPurchaseDate(l) ==
  LET purchaseDate == normalizeDate(l.purchaseDate)
      lotDates == {normalizeDate(l.ownershipLots[k].purchaseDate) :
                     k \in DOMAIN l.ownershipLots} \ {DEmpty}
  IN IF purchaseDate = DEmpty /\ Len(l.ownershipLots) > 0 /\ lotDates # {}
     THEN EarliestDate(lotDates)
     ELSE purchaseDate

\* loadLoans: the normalized loan object
LoadedLoan(l) ==
  [l EXCEPT !.loanStartDate = normalizeDate(l.loanStartDate),
            !.purchaseDate = LoadedPurchaseDate(l)]

getMonthlyServicingRate(x, monthlyServicingBps) ==
  MulDiv(x, monthlyServicingBps, 10000)

SetupFee == 150
MonthlyServicingBps == 25

\* ------------------------------------------------------------------
\* buildAmortSchedule: constants of one call
\* ------------------------------------------------------------------
graceMonthsOf(ln) == ln.graceYears * 12
repaymentMonthsOf(ln) == ln.termYears * 12
totalMonthsOf(ln) == graceMonthsOf(ln) + repaymentMonthsOf(ln)

\* principal * r / (1 - (1 + r)^-n)  =  principal * (1+r)^n / ((1+r)^n - 1) * r
LevelPayment(ln) ==
  IF repaymentMonthsOf(ln) > 0
  THEN The({TimesMonthlyRate(MulDiv(ln.principal, f, f - PowScale), ln.nominalRate) :
              f \in {PowOnePlusRate(ln.nominalRate, repaymentMonthsOf(ln), PowScale)}})
  ELSE 0

\* prepayMap[key]: the prepayment events of the month, in list order
PrepayEventsOf(events, key) ==
  SelectSeq(events, LAMBDA e : e.type = "prepayment" /\ monthKeyFromISO(e.date) = key)

\* deferralStartMap[key]: the months of the deferral events starting in
\* the month, added up (0 when there is none)
RECURSIVE SumMonths(_)
SumMonths(es) ==
  IF es = <<>> THEN 0 ELSE Max(0, Head(es).amount) + SumMonths(Tail(es))

DeferralStartOf(events, key) ==
  SumMonths(SelectSeq(events, LAMBDA e : e.type = "deferral"
                        /\ e.amount > 0 /\ monthKeyFromISO(e.date) = key))

\* events.find(e => e.type === "default" && e.date)
DefaultEventsOf(events) == SelectSeq(events, LAMBDA e : e.type = "default")
HasDefaultEvent(events) == DefaultEventsOf(events) # <<>>
DefaultMonthKey(events) ==
  IF HasDefaultEvent(events)
  THEN monthKeyFromISO(Head(DefaultEventsOf(events)).date) ELSE NoMonth
DefaultRecovery(events) ==
  IF HasDefaultEvent(events) THEN Head(DefaultEventsOf(events)).amount ELSE 0

\* variant: an event is applied in full, whatever balance is left
ApplyPrepayment_InFull(e, st) ==
  IF e.amount > 0 THEN <<st[1] + e.amount, st[2] - e.amount>> ELSE st

\* monthEvents.forEach: <<prepaymentThisMonth, balance>> after the events
ApplyPrepayment(e, st) ==
  IF e.amount > 0
  THEN <<st[1] + Min(st[2], e.amount), st[2] - Min(st[2], e.amount)>>
  ELSE st

RECURSIVE ApplyPrepaymentsFrom(_, _, _)
ApplyPrepaymentsFrom(monthEvents, k, st) ==
  IF k > Len(monthEvents) THEN st
  ELSE The({ApplyPrepaymentsFrom(monthEvents, k + 1, next) :
              next \in {ApplyPrepayment(monthEvents[k], st)}})

ApplyPrepayments(monthEvents, prepaid, bal) ==
  The({ApplyPrepaymentsFrom(es, 1, st) :
         es \in {monthEvents}, st \in {<<prepaid, bal>>}})

\* variant: the interest of a deferral month accrued but not capitalized
CapitalizeInterest_NotAdded(bal, bps) == bal

\* a deferral month: balance += balance * monthlyRate
CapitalizeInterest(bal, bps) == bal + TimesMonthlyRate(bal, bps)

\* const isOwned = loanDate >= purchaseMonth
IsOwned(loanDate, pm) == loanDate >= pm

\* isOwned && same year && same month as purchaseMonth
IsFirstOwnedMonth(loanDate, pm) == IsOwned(loanDate, pm) /\ loanDate = pm

\* let feeThisMonth, in units
FeeThisMonth(users, ln, loanDate, pm, bal) ==
  LET userId == resolveUserForLoan(ln)
      role == IF userId \in DOMAIN users THEN users[userId].role ELSE "investor"
      flags == resolveFeeWaiverFlags(users, userId, ln)
      setup == IF IsFirstOwnedMonth(loanDate, pm) /\ role = "lender"
                  /\ ~flags.waiveSetup
               THEN SetupFee * Unit ELSE 0
      monthly == IF IsOwned(loanDate, pm) /\ ~flags.waiveMonthly
                 THEN getMonthlyServicingRate(bal, MonthlyServicingBps) ELSE 0
  IN setup + monthly

\* the fields every row carries; a field the code leaves out of a row is
\* FALSE (a flag) or NoMonth (deferralIndex, deferralRemaining)
BaseRow(loanDate, pm, fee, bal) ==
  [monthIndex |-> Len(schedule) + 1,
   loanDate |-> loanDate,
   payment |-> 0, scheduledPrincipal |-> 0, prepaymentPrincipal |-> 0,
   principalPaid |-> 0, prepayment |-> 0, interest |-> 0,
   balance |-> ToFixed2(bal),
   accruedInterest |-> 0,
   feeThisMonth |-> ToFixed2(fee),
   isDeferred |-> FALSE, deferralIndex |-> NoMonth, deferralRemaining |-> NoMonth,
   isOwned |-> IsOwned(loanDate, pm),
   defaulted |-> FALSE, isTerminal |-> FALSE, isPaidOff |-> FALSE,
   recovery |-> 0,
   contractualMonth |-> i + 1,
   cumPrincipal |-> 0, cumInterest |-> 0, cumPayment |-> 0]

\* the post-pass: cumulative columns over owned rows, isPaidOff of the last
CumulateRow(r, cum) ==
  IF r.isOwned
  THEN <<cum[1] + r.principalPaid, cum[2] + r.interest, cum[3] + r.payment>>
  ELSE cum

RECURSIVE Cumulate(_, _, _)
Cumulate(rows, k, cum) ==
  IF k > Len(rows) THEN rows
  ELSE The({The({Cumulate(next, k + 1, c) :
                   next \in {[rows EXCEPT ![k].cumPrincipal = c[1],
                                          ![k].cumInterest = c[2],
                                          ![k].cumPayment = c[3]]}}) :
              c \in {CumulateRow(rows[k], cum)}})

PostPass(rows) ==
  LET c == Cumulate(rows, 1, <<0, 0, 0>>)
  IN IF c = <<>> THEN c
     ELSE [c EXCEPT ![Len(c)].isPaidOff = (c[Len(c)].balance <= 0)]

\* ------------------------------------------------------------------
\* valueLoan: results
\* ------------------------------------------------------------------
NoResult ==
  [kind |-> "none", riskTier |-> "none", npv |-> "none", discountRate |-> "none"]

\* the result returned for invalid loan basics
SentinelResult ==
  [kind |-> "sentinel", riskTier |-> "UNKNOWN", npv |-> "NaN", discountRate |-> "null"]

\* Number(x) || dflt, for a number x
NumberOr(x, dflt) == IF x = 0 THEN dflt ELSE x

\* (Number(loan.termYears) || 10) * 12 + (Number(loan.graceYears) || 0) * 12
originalTermMonthsOf(ln) ==
  NumberOr(ln.termYears, 10) * 12 + NumberOr(ln.graceYears, 0) * 12

InvalidLoanBasics(ln) ==
  ln.principal <= 0 \/ ln.nominalRate <= 0 \/ originalTermMonthsOf(ln) <= 0

\* ------------------------------------------------------------------
\* Actions
\* ------------------------------------------------------------------

\* loanEngine.js loadLoans: one stored record normalized
LoadLoans ==
  /\ pc = "raw"
  /\ entry = "loadLoans"
  /\ IF normalizeDateThrows(raw.loanStartDate) \/ normalizeDateThrows(raw.purchaseDate)
     THEN /\ error' = "TypeError"
          /\ pc' = "raised"
          /\ UNCHANGED <<loan, log>>
     ELSE /\ loan' = LoadedLoan(raw)
          /\ log' = log
               \o (IF normalizeDateWarns(raw.loanStartDate)
                   THEN <<"Unrecognized date format">> ELSE <<>>)
               \o (IF normalizeDateWarns(raw.purchaseDate)
                   THEN <<"Unrecognized date format">> ELSE <<>>)
          /\ pc' = "call"
          /\ UNCHANGED error
  /\ UNCHANGED <<valuationVars, entry, raw, USERS, remote, VALUATION_CURVES, loopVars, result>>

\* valuationEngine.js valueLoan, up to the call of buildAmortSchedule
ValueLoanBasics ==
  /\ pc = "raw"
  /\ entry = "valueLoan"
  /\ IF InvalidLoanBasics(raw)
     THEN /\ result' = SentinelResult
          /\ log' = Append(log, "Invalid loan basics")
          /\ pc' = "done"
          /\ UNCHANGED <<loan, error>>
     ELSE IF VALUATION_CURVES = "null"
     THEN /\ error' = "Valuation curves not loaded"
          /\ pc' = "raised"
          /\ UNCHANGED <<loan, log, result>>
     ELSE /\ loan' = raw
          /\ pc' = "call"
          /\ UNCHANGED <<log, error, result>>
  /\ UNCHANGED <<valuationVars, entry, raw, USERS, remote, VALUATION_CURVES, loopVars>>

\* buildAmortSchedule, from its head to the first test of the month loop
BuildAmortScheduleEnter ==
  /\ pc = "call"
  /\ LET start == parseISODateLocal(loan.loanStartDate)
         purchase == parseISODateLocal(loan.purchaseDate)
         fallback == purchase.kind # "date"
     IN IF start.kind = "throw" \/ (start.kind = "date" /\ purchase.kind = "throw")
        THEN /\ error' = "Unsupported date input"
             /\ pc' = "raised"
             /\ UNCHANGED <<log, loopVars>>
        ELSE IF start.kind # "date"
        THEN /\ error' = "Invalid loanStartDate"
             /\ pc' = "raised"
             /\ UNCHANGED <<log, loopVars>>
        ELSE /\ log' = IF fallback /\ loan.purchaseDate # DUndefined
                       THEN Append(log, "Invalid purchaseDate") ELSE log
             /\ purchaseMonth' = IF fallback THEN start.m ELSE purchase.m
             /\ originalMonthlyPayment' = LevelPayment(loan)
             /\ schedule' = <<>>
             /\ balance' = loan.principal
             /\ calendarDate' = start.m
             /\ i' = 0
             /\ deferralRemaining' = 0
             /\ deferralTotal' = 0
             /\ pc' = "loop"
             /\ UNCHANGED error
  /\ UNCHANGED <<valuationVars, entry, raw, loan, USERS, remote, VALUATION_CURVES, result>>

InLoop == pc = "loop" /\ i < totalMonthsOf(loan)

\* deferralRemaining after the DEFERRAL START block
DeferralRemainingNow ==
  LET started == DeferralStartOf(loan.events, monthKeyFromDate(calendarDate))
  IN IF deferralRemaining = 0 /\ started > 0 THEN started ELSE deferralRemaining

DeferralTotalNow ==
  LET started == DeferralStartOf(loan.events, monthKeyFromDate(calendarDate))
  IN IF deferralRemaining = 0 /\ started > 0 THEN started ELSE deferralTotal

\* variant: the default block placed after the deferral block, so that a
\* month of a deferral is emitted as a deferral row and never defaults
IsDefaultMonth_AfterDeferral ==
  HasDefaultEvent(loan.events)
    /\ monthKeyFromDate(calendarDate) = DefaultMonthKey(loan.events)
    /\ DeferralRemainingNow = 0

\* the DEFAULT block's test, the first of the month
IsDefaultMonth ==
  HasDefaultEvent(loan.events)
    /\ monthKeyFromDate(calendarDate) = DefaultMonthKey(loan.events)

FeeNow == FeeThisMonth(USERS, loan, calendarDate, purchaseMonth, balance)

\* the month of the default event: the terminal row, break, post-pass
DefaultMonth ==
  /\ InLoop
  /\ IsDefaultMonth
  /\ LET applied == Min(balance, DefaultRecovery(loan.events))
         row == [BaseRow(calendarDate, purchaseMonth, FeeNow, balance - applied)
                   EXCEPT !.payment = ToFixed2(applied),
                          !.prepaymentPrincipal = ToFixed2(applied),
                          !.principalPaid = ToFixed2(applied),
                          !.defaulted = TRUE,
                          !.isTerminal = TRUE,
                          !.recovery = ToFixed2(applied)]
     IN /\ balance' = balance - applied
        /\ schedule' = PostPass(Append(schedule, row))
  /\ pc' = "done"
  /\ UNCHANGED <<valuationVars, entry, raw, loan, USERS, remote, VALUATION_CURVES, calendarDate, i,
                 deferralRemaining, deferralTotal, purchaseMonth,
                 originalMonthlyPayment, log, error, result>>

\* variant: a month of a deferral does not count as a contractual month
DeferralMonth_NotCounted ==
  /\ InLoop
  /\ ~IsDefaultMonth
  /\ DeferralRemainingNow > 0
  /\ LET accruedInterest == TimesMonthlyRate(balance, loan.nominalRate)
         pre == ApplyPrepayments(
                  PrepayEventsOf(loan.events, monthKeyFromDate(calendarDate)),
                  0, CapitalizeInterest(balance, loan.nominalRate))
         row == [BaseRow(calendarDate, purchaseMonth, FeeNow, pre[2])
                   EXCEPT !.prepaymentPrincipal = ToFixed2(pre[1]),
                          !.principalPaid = ToFixed2(pre[1]),
                          !.prepayment = ToFixed2(pre[1]),
                          !.accruedInterest = ToFixed2(accruedInterest),
                          !.isDeferred = TRUE,
                          !.deferralIndex = DeferralTotalNow - DeferralRemainingNow,
                          !.deferralRemaining = DeferralRemainingNow]
     IN /\ balance' = pre[2]
        /\ schedule' = Append(schedule, row)
  /\ deferralRemaining' = DeferralRemainingNow - 1
  /\ deferralTotal' = DeferralTotalNow
  /\ calendarDate' = calendarDate + 1
  /\ i' = i
  /\ UNCHANGED <<valuationVars, pc, entry, raw, loan, USERS, remote, VALUATION_CURVES, purchaseMonth,
                 originalMonthlyPayment, log, error, result>>

\* a month of a deferral: interest capitalized, prepayments, continue
DeferralMonth ==
  /\ InLoop
  /\ ~IsDefaultMonth
  /\ DeferralRemainingNow > 0
  /\ LET accruedInterest == TimesMonthlyRate(balance, loan.nominalRate)
         pre == ApplyPrepayments(
                  PrepayEventsOf(loan.events, monthKeyFromDate(calendarDate)),
                  0, CapitalizeInterest(balance, loan.nominalRate))
         row == [BaseRow(calendarDate, purchaseMonth, FeeNow, pre[2])
                   EXCEPT !.prepaymentPrincipal = ToFixed2(pre[1]),
                          !.principalPaid = ToFixed2(pre[1]),
                          !.prepayment = ToFixed2(pre[1]),
                          !.accruedInterest = ToFixed2(accruedInterest),
                          !.isDeferred = TRUE,
                          !.deferralIndex = DeferralTotalNow - DeferralRemainingNow,
                          !.deferralRemaining = DeferralRemainingNow]
     IN /\ balance' = pre[2]
        /\ schedule' = Append(schedule, row)
  /\ deferralRemaining' = DeferralRemainingNow - 1
  /\ deferralTotal' = DeferralTotalNow
  /\ calendarDate' = calendarDate + 1
  /\ i' = i + 1
  /\ UNCHANGED <<valuationVars, pc, entry, raw, loan, USERS, remote, VALUATION_CURVES, purchaseMonth,
                 originalMonthlyPayment, log, error, result>>

\* a normal month: grace or level payment, prepayments, paid-off check
NormalMonth ==
  /\ InLoop
  /\ ~IsDefaultMonth
  /\ DeferralRemainingNow = 0
  /\ LET interest == TimesMonthlyRate(balance, loan.nominalRate)
         monthsSinceLoanStart ==
           calendarDate - parseISODateLocal(loan.loanStartDate).m
         inGrace == monthsSinceLoanStart < graceMonthsOf(loan)
         paymentAmt == IF inGrace THEN 0 ELSE originalMonthlyPayment
         scheduledPrincipal ==
           IF inGrace THEN 0 ELSE Min(paymentAmt - interest, balance)
         afterScheduled ==
           IF inGrace THEN balance + interest
           ELSE LET b == Max(0, balance - scheduledPrincipal)
                IN IF b <= Unit \div 100 THEN 0 ELSE b
         pre == ApplyPrepayments(
                  PrepayEventsOf(loan.events, monthKeyFromDate(calendarDate)),
                  0, afterScheduled)
         paidOff == pre[2] <= 0
         row == [BaseRow(calendarDate, purchaseMonth, FeeNow, pre[2])
                   EXCEPT !.payment = ToFixed2(paymentAmt),
                          !.scheduledPrincipal = ToFixed2(scheduledPrincipal),
                          !.prepaymentPrincipal = ToFixed2(pre[1]),
                          !.principalPaid = ToFixed2(scheduledPrincipal + pre[1]),
                          !.prepayment = ToFixed2(pre[1]),
                          !.interest = ToFixed2(interest),
                          !.isTerminal = paidOff,
                          !.isPaidOff = paidOff]
     IN /\ balance' = pre[2]
        /\ schedule' = IF paidOff THEN PostPass(Append(schedule, row))
                       ELSE Append(schedule, row)
        /\ pc' = IF paidOff THEN "done" ELSE "loop"
  /\ calendarDate' = calendarDate + 1
  /\ i' = i + 1
  /\ deferralRemaining' = DeferralRemainingNow
  /\ deferralTotal' = DeferralTotalNow
  /\ UNCHANGED <<valuationVars, entry, raw, loan, USERS, remote, VALUATION_CURVES, purchaseMonth,
                 originalMonthlyPayment, log, error, result>>

\* the loop condition fails: post-pass and return
LoopEnd ==
  /\ pc = "loop"
  /\ i >= totalMonthsOf(loan)
  /\ schedule' = PostPass(schedule)
  /\ pc' = "done"
  /\ UNCHANGED <<valuationVars, entry, raw, loan, USERS, remote, VALUATION_CURVES, balance,
                 calendarDate, i, deferralRemaining, deferralTotal,
                 purchaseMonth, originalMonthlyPayment, log, error, result>>

Next ==
  \/ LoadLoans
  \/ ValueLoanBasics
  \/ BuildAmortScheduleEnter
  \/ DefaultMonth
  \/ DeferralMonth
  \/ NormalMonth
  \/ LoopEnd

\* ------------------------------------------------------------------
\* valuationEngine.js: arguments and module state
\* ------------------------------------------------------------------
\* a field that is undefined in the object
Missing == 0 - 999999
\* x ?? d
Coalesce(x, d) == IF x = Missing THEN d ELSE x
\* an override map without entries
EmptyMap == [k \in {} |-> 0]
\* map?.[key] ?? d
Lookup(map, key, d) == IF key \in DOMAIN map THEN map[key] ELSE d

\* deriveRiskTier(borrower = {}): the defaults of the destructuring
NoBorrower ==
  [borrowerFico |-> 0, cosignerFico |-> 0, yearInSchool |-> "Z",
   isGraduateStudent |-> FALSE, degreeType |-> "", opeid |-> "null"]

\* SYSTEM_PROFILE.assumptions; rates in basis points, the prepayment
\* multiplier in hundredths
SystemAssumptions ==
  [riskPremiumBps |-> [LOW |-> 250, MEDIUM |-> 350, HIGH |-> 550, VERY_HIGH |-> 750],
   recoveryRate |-> [LOW |-> 30, MEDIUM |-> 22, HIGH |-> 15, VERY_HIGH |-> 10],
   prepaymentMultiplier |-> 100,
   graduationRateThreshold |-> 75,
   earningsThreshold |-> 70000,
   ficoBorrowerAdjustment |-> 50,
   ficoCosignerAdjustment |-> 25,
   baseRiskFreeRate |-> 425,
   prepaySeasoningYears |-> Missing,
   degreeAdjustmentsBps |-> EmptyMap,
   schoolAdjustmentsBps |-> EmptyMap,
   yearInSchoolAdjustmentsBps |-> EmptyMap,
   graduateAdjustmentBps |-> Missing]

\* SCHOOLTIERS = null
NoSchoolTiers == [loaded |-> FALSE, table |-> EmptyMap]

\* valueLoan's locals before the call reaches them
NoLocals ==
  [currentIndex |-> 0, principal |-> 0, termMonths |-> 0, monthlyPayment |-> 0,
   riskTier |-> "none", totalRiskBps |-> 0, cappedRiskBps |-> 0,
   effectiveRiskFreeRate |-> 0, discountRate |-> 0,
   recoveryPct |-> 0, recoveryLag |-> 0, monthlyPD |-> <<>>, monthlySMM |-> <<>>,
   m |-> 0, balance |-> 0, npv |-> 0, totalDefaults |-> 0, totalRecoveries |-> 0,
   walNumerator |-> 0, totalCF |-> 0, cashFlows |-> <<>>, recoveryQueue |-> <<>>,
   monthlySchedule |-> <<>>, riskBreakdown |-> <<>>]

\* calculateIRR's locals before the call
NoIrr ==
  [min |-> 0, max |-> 0, irr |-> 0, i |-> 0, cashFlows |-> <<>>, principal |-> 0,
   done |-> FALSE, nan |-> FALSE, value |-> 0]

NoTotals ==
  [totalPrincipal |-> 0, totalNPV |-> 0, totalExpectedLossWeighted |-> 0,
   totalWALWeighted |-> 0, totalIRRWeighted |-> 0, totalPrincipalForWeights |-> 0,
   nonFinite |-> {}]

\* the state of the valuation engine while only the loan engine runs
ValuationIdle ==
  /\ today = StartMonth
  /\ borrower = NoBorrower
  /\ profile = SystemAssumptions
  /\ SCHOOLTIERS = NoSchoolTiers
  /\ vl = NoLocals
  /\ irr = NoIrr
  /\ callNo = 0
  /\ previous = NoResult
  /\ loans = <<>>
  /\ nextLoan = 0
  /\ totals = NoTotals
  /\ fn = "none"
  /\ out = "none"

\* ------------------------------------------------------------------
\* Inputs
\* ------------------------------------------------------------------
StartDate == MkDate(StartMonth, 15)
Dollars(n) == n * Unit

BaseLoan ==
  [principal |-> Dollars(1000), nominalRate |-> 1200,
   termYears |-> 1, graceYears |-> 0,
   loanStartDate |-> StartDate, purchaseDate |-> DUndefined,
   events |-> <<>>, ownershipLots |-> <<>>,
   owner |-> "null", user |-> "null", feeWaiver |-> "none"]

Ev(t, monthOffset, amt) ==
  [type |-> t, date |-> MkDate(StartMonth + monthOffset, 10), amount |-> amt]

LongestContract == 12 * (MaxTermYears + MaxGraceYears)

\* no default event, or one: in month 1, 2, 12, 13 or the month after
\* the longest contract, recovering nothing, a part, or all
DefaultChoices ==
  {<<>>} \cup
  {<<Ev("default", k, Dollars(a))>> :
     k \in {0, 1, 11, 12, LongestContract}, a \in {0, 200, 5000}}

\* no deferral, one of 1..MaxDeferMonths months from month 1 or month 5,
\* two events starting in month 1, or one longer than any contract
DeferralChoices ==
  {<<>>} \cup
  {<<Ev("deferral", k, n)>> : k \in {0, 4}, n \in 1..MaxDeferMonths} \cup
  {<<Ev("deferral", 0, 1), Ev("deferral", 0, MaxDeferMonths)>>,
   <<Ev("deferral", 0, LongestContract + 1)>>}

\* no prepayment, one (partial or larger than the balance) in month 1, 2
\* or 6, or two in the same month that together exceed the balance
PrepayChoices ==
  {<<>>} \cup
  {<<Ev("prepayment", k, Dollars(a))>> : k \in {0, 1, 5}, a \in {100, 5000}} \cup
  {<<Ev("prepayment", 1, Dollars(600)), Ev("prepayment", 1, Dollars(600))>>}

EventLists ==
  {d \o f \o p : d \in DefaultChoices, f \in DeferralChoices, p \in PrepayChoices}

\* loans that differ in their events, with and without a grace period
EventLoans ==
  {[BaseLoan EXCEPT !.termYears = MaxTermYears, !.graceYears = g, !.events = e] :
     g \in {0, MaxGraceYears}, e \in EventLists}

\* loans without events that differ in principal, rate and terms
PlainLoans ==
  {[BaseLoan EXCEPT !.principal = Dollars(p), !.nominalRate = r,
                    !.termYears = t, !.graceYears = g] :
     p \in {1000, 2500}, r \in {600, 800, 1200},
     t \in 0..MaxTermYears, g \in 0..MaxGraceYears}

Lot(u, d) == [user |-> u, purchaseDate |-> d]

PurchaseDateChoices ==
  {DUndefined, DNull, DEmpty, DMalformed, DNonString,
   MkDate(StartMonth - 2, 20), MkDate(StartMonth, 1),
   MkDate(StartMonth + 3, 28), MkUSDate(StartMonth + 5, 7)}

LotChoices ==
  {<<>>,
   <<Lot("lena", MkDate(StartMonth + 2, 5))>>,
   <<Lot("john", MkDate(StartMonth + 4, 1)), Lot("lena", MkDate(StartMonth + 1, 9))>>,
   <<Lot("lena", DEmpty), Lot("john", MkUSDate(StartMonth - 1, 30))>>,
   <<Lot("john", DEmpty)>>}

\* loans that differ in purchase date, lots, owner and fee waiver
OwnershipLoans ==
  {[BaseLoan EXCEPT !.purchaseDate = d, !.ownershipLots = lots,
                    !.owner = o, !.feeWaiver = w, !.events = e] :
     d \in PurchaseDateChoices, lots \in LotChoices,
     o \in {"null", "lena", "john"}, w \in {"none", "setup", "grace"},
     e \in {<<>>, <<Ev("default", 1, 0)>>}}

\* loans whose start date is missing or unusable
BadStartLoans ==
  {[BaseLoan EXCEPT !.loanStartDate = d] :
     d \in {DUndefined, DEmpty, DMalformed, DNonString}}

\* loans handed to valueLoan, valid and invalid basics alike
ValuationLoans ==
  {[BaseLoan EXCEPT !.principal = Dollars(p), !.nominalRate = r,
                    !.termYears = t, !.graceYears = g] :
     p \in {0 - 1000, 0, 1000}, r \in {0 - 600, 0, 1200},
     t \in (0 - 1)..MaxTermYears, g \in 0..MaxGraceYears}

Init ==
  /\ \/ /\ entry = "direct"
        /\ raw \in EventLoans \cup PlainLoans \cup BadStartLoans
        /\ remote = NoRemote
        /\ USERS = UsersFallback
        /\ VALUATION_CURVES = "loaded"
     \/ /\ entry \in {"direct", "loadLoans"}
        /\ raw \in OwnershipLoans
        /\ remote = NoRemote
        /\ USERS = UsersLoaded
        /\ VALUATION_CURVES = "loaded"
     \/ /\ entry = "loadLoans"
        /\ raw \in BadStartLoans
        /\ remote = NoRemote
        /\ USERS = UsersFallback
        /\ VALUATION_CURVES = "loaded"
     \/ /\ entry = "valueLoan"
        /\ raw \in ValuationLoans
        /\ remote = NoRemote
        /\ USERS = UsersFallback
        /\ VALUATION_CURVES \in {"null", "loaded"}
  /\ ValuationIdle
  /\ pc = IF entry = "direct" THEN "call" ELSE "raw"
  /\ loan = raw
  /\ schedule = <<>>
  /\ balance = 0
  /\ calendarDate = NoMonth
  /\ i = 0
  /\ deferralRemaining = 0
  /\ deferralTotal = 0
  /\ purchaseMonth = NoMonth
  /\ originalMonthlyPayment = 0
  /\ log = <<>>
  /\ error = "none"
  /\ result = NoResult

Spec == Init /\ [][Next]_vars

\* ------------------------------------------------------------------
\* valuationEngine.js: risk derivation
\* ------------------------------------------------------------------
\* the bands with the floor of band A ten points higher
deriveFicoBand_HigherA(fico10) ==
  IF fico10 >= 7700 THEN "A"
  ELSE IF fico10 >= 7200 THEN "B"
  ELSE IF fico10 >= 6800 THEN "C"
  ELSE IF fico10 >= 6400 THEN "D"
  ELSE "E"

\* a FICO score times ten, so that the blend 0.7 b + 0.3 c is an integer
deriveFicoBand(fico10) ==
  IF fico10 >= 7600 THEN "A"
  ELSE IF fico10 >= 7200 THEN "B"
  ELSE IF fico10 >= 6800 THEN "C"
  ELSE IF fico10 >= 6400 THEN "D"
  ELSE "E"

\* variant: the weighted blend alone, without the floor at the
\* borrower's own score
blendedFico_BlendOnly(b) == 7 * b.borrowerFico + 3 * b.cosignerFico

\* Math.max(borrowerFico, alpha * borrowerFico + (1 - alpha) * cosignerFico)
blendedFico(b) ==
  Max(10 * b.borrowerFico, 7 * b.borrowerFico + 3 * b.cosignerFico)

\* yearInSchool.toUpperCase()
ToUpperCase(y) ==
  IF y = "a" THEN "A" ELSE IF y = "b" THEN "B" ELSE IF y = "c" THEN "C"
  ELSE IF y = "d" THEN "D" ELSE IF y = "z" THEN "Z" ELSE IF y = "x" THEN "X"
  ELSE y

\* const yearMap = { "A": 6, "B": 7, "C": 8, "D": 9, "Z": 1 }
yearMap == [A |-> 6, B |-> 7, C |-> 8, D |-> 9, Z |-> 1]

\* parseInt of a string of one digit; not-a-number, which is falsy like
\* 0, for any other string of the model
Digits ==
  ("0" :> 0) @@ ("1" :> 1) @@ ("2" :> 2) @@ ("3" :> 3) @@ ("4" :> 4) @@
  ("5" :> 5) @@ ("6" :> 6) @@ ("7" :> 7) @@ ("8" :> 8) @@ ("9" :> 9)
NaNInt == 0 - 1
parseInt(str) == IF str \in DOMAIN Digits THEN Digits[str] ELSE NaNInt

\* yearMap[yearNum] || parseInt(yearNum) || 1
effectiveYear(yearInSchool) ==
  LET yearNum == ToUpperCase(yearInSchool)
  IN IF yearNum \in DOMAIN yearMap THEN yearMap[yearNum]
     ELSE IF parseInt(yearNum) # 0 /\ parseInt(yearNum) # NaNInt
     THEN parseInt(yearNum)
     ELSE 1

deriveRiskTier(b) ==
  LET band == deriveFicoBand(blendedFico(b))
      byBand == IF band = "A" /\ effectiveYear(b.yearInSchool) >= 3 THEN "LOW"
                ELSE IF band \in {"A", "B"} THEN "MEDIUM"
                ELSE IF band \in {"C", "D"} THEN "HIGH"
                ELSE "VERY_HIGH"
  IN IF blendedFico(b) >= 7800 THEN "LOW"
     ELSE IF blendedFico(b) >= 7200 /\ byBand = "HIGH" THEN "MEDIUM"
     ELSE byBand

\* a record of the school table: graduation rate in percent, median
\* earnings in dollars (Missing: the field is absent, NullEarnings: null)
NullEarnings == 0 - 2

computeSchoolTier(schoolData, assumptions) ==
  LET grad == IF schoolData.grad_rate = Missing THEN 0 ELSE schoolData.grad_rate
      earn == IF schoolData.median_earnings_10yr \in {Missing, NullEarnings, 0}
              THEN 50000 ELSE schoolData.median_earnings_10yr
  IN IF grad >= assumptions.graduationRateThreshold
          /\ earn >= assumptions.earningsThreshold
     THEN "Tier 1"
     ELSE IF 10 * grad >= 8 * assumptions.graduationRateThreshold
               \/ 10 * earn >= 8 * assumptions.earningsThreshold
     THEN "Tier 2"
     ELSE "Tier 3"

\* opeid.trim()
Trim(opeid) == IF opeid = " 001234 " THEN "001234" ELSE opeid

\* the record getSchoolTier computes the tier from: the one of the
\* identifier, else the DEFAULT record, else undefined
SchoolDataKey(tiers, opeid) ==
  IF opeid \notin {"null", ""} /\ Trim(opeid) \in DOMAIN tiers.table
  THEN Trim(opeid) ELSE "DEFAULT"

\* getSchoolTier: the tier, or "TypeError" when reading a field of
\* undefined raises
getSchoolTier(tiers, opeid, assumptions) ==
  IF ~tiers.loaded \/ DOMAIN tiers.table = {} THEN "Tier 3"
  ELSE IF SchoolDataKey(tiers, opeid) \notin DOMAIN tiers.table THEN "TypeError"
  ELSE computeSchoolTier(tiers.table[SchoolDataKey(tiers, opeid)], assumptions)

\* getSchoolTier: SCHOOLTIERS after the call (null earnings overwritten)
SchoolTiersAfter(tiers, opeid) ==
  LET key == SchoolDataKey(tiers, opeid)
  IN IF tiers.loaded /\ key \in DOMAIN tiers.table
          /\ tiers.table[key].median_earnings_10yr = NullEarnings
     THEN [tiers EXCEPT !.table[key].median_earnings_10yr = 50000]
     ELSE tiers

\* adjMap[tier] || +100
getSchoolAdjBps(tier) ==
  IF tier = "Tier 1" THEN 0 - 75
  ELSE IF tier = "Tier 3" THEN 125
  ELSE 100

\* ------------------------------------------------------------------
\* valuationEngine.js: curves to monthly vectors
\* ------------------------------------------------------------------
\* monthly rates are kept in millionths, annual curve values in basis
\* points (hundredths of a percent)
RateScale == 1000 * 1000

\* y^12 for y in millionths
Pow12(y) ==
  The({MulDiv(y8, y4, RateScale) :
         y8 \in {MulDiv(y4, y4, RateScale) :
                   y4 \in {MulDiv(y2, y2, RateScale) :
                             y2 \in {MulDiv(y, y, RateScale)}}},
         y4 \in {MulDiv(y2, y2, RateScale) : y2 \in {MulDiv(y, y, RateScale)}}})

\* the largest x in lo..hi-1 with (1 - x)^12 >= target, by bisection
RECURSIVE RootSearch(_, _, _)
RootSearch(lo, hi, target) ==
  IF hi - lo <= 1 THEN lo
  ELSE The({IF Pow12(RateScale - mid) >= target
            THEN RootSearch(mid, hi, target)
            ELSE RootSearch(lo, mid, target) : mid \in {(lo + hi) \div 2}})

\* 1 - Math.pow(1 - annual, 1 / 12), for 0 <= annual <= 1
MonthlyFromAnnual(annualBps) ==
  IF annualBps = 0 THEN 0
  ELSE RootSearch(0, RateScale + 1, (10000 - annualBps) * (RateScale \div 10000))

\* cumDefaultsPct.map((cum, i) => (i === 0 ? cum : cum - cumDefaultsPct[i - 1]))
annualDefaults(cumDefaultsPct) ==
  [y \in DOMAIN cumDefaultsPct |->
     IF y = 1 THEN cumDefaultsPct[y] ELSE cumDefaultsPct[y] - cumDefaultsPct[y - 1]]

\* the monthly rate of each year of the curve, in order
RECURSIVE YearlyRates(_, _, _)
YearlyRates(annualBps, y, acc) ==
  IF y > Len(annualBps) THEN acc
  ELSE The({YearlyRates(annualBps, y + 1, Append(acc, r)) :
              r \in {MonthlyFromAnnual(annualBps[y])}})

\* the interpolation filling the months after the curve with 0
FillMonths_ZeroPad(yearly, maxMonths) ==
  [k \in 1..maxMonths |->
     IF k <= 12 * Len(yearly) THEN yearly[((k - 1) \div 12) + 1] ELSE 0]

\* the two loops of the interpolation: twelve entries a year while
\* the vector is shorter than maxMonths, then the last entry (0 when
\* there is none) until it has maxMonths entries
FillMonths(yearly, maxMonths) ==
  [k \in 1..maxMonths |->
     IF k <= 12 * Len(yearly) THEN yearly[((k - 1) \div 12) + 1]
     ELSE IF Len(yearly) = 0 THEN 0
     ELSE yearly[Len(yearly)]]

interpolateCumulativeDefaultsToMonthlyPD(cumDefaultsPct, maxMonths) ==
  The({FillMonths(yearly, maxMonths) :
         yearly \in {YearlyRates(annualDefaults(cumDefaultsPct), 1, <<>>)}})

interpolateAnnualCPRToMonthlySMM(annualCPRPct, maxMonths) ==
  The({FillMonths(yearly, maxMonths) :
         yearly \in {YearlyRates(annualCPRPct, 1, <<>>)}})

\* ------------------------------------------------------------------
\* valuationEngine.js: calculateIRR
\* ------------------------------------------------------------------
MAX_ITER == 100

\* (cf + rest) / (1 + irr), the monthly rate irr in millionths
OneMonthBack(cf, rest, rate) == MulDiv(cf + rest, RateScale, RateScale + rate)

\* sum over t >= k of cashFlows[t] / (1 + irr)^(t - k + 1); cashFlows[t]
\* of the code is cashFlows[t + 1] of the sequence; four months are
\* taken at a time while there are four
RECURSIVE DiscountedFrom(_, _, _)
DiscountedFrom(cashFlows, k, rate) ==
  IF k + 1 > Len(cashFlows) THEN 0
  ELSE IF k + 4 > Len(cashFlows)
  THEN The({OneMonthBack(cashFlows[k + 1], rest, rate) :
              rest \in {DiscountedFrom(cashFlows, k + 1, rate)}})
  ELSE The({OneMonthBack(cashFlows[k + 1], r1, rate) :
              r1 \in {OneMonthBack(cashFlows[k + 2], r2, rate) :
                r2 \in {OneMonthBack(cashFlows[k + 3], r3, rate) :
                  r3 \in {OneMonthBack(cashFlows[k + 4], r4, rate) :
                    r4 \in {DiscountedFrom(cashFlows, k + 4, rate)}}}}})

\* let npv = -principal; npv += cashFlows[t] / Math.pow(1 + irr, t)
IrrNpv(cashFlows, principal, rate) ==
  DiscountedFrom(cashFlows, 1, rate) - principal

\* Math.abs(npv) < PRECISION: 0.000001 dollars is a hundredth of a unit,
\* so a residual of whole units is under it only when it is 0
WithinPrecision(npv) == npv = 0

\* irr * 12 * 100, in hundredths of a percent
Annualize(rate) == MulDiv(rate, 12, 100)

\* calculateIRR: its locals at entry
IrrEnter(cashFlows, principal) ==
  [min |-> 0, max |-> RateScale, irr |-> 8000, i |-> 0,
   cashFlows |-> cashFlows, principal |-> principal,
   done |-> FALSE, nan |-> FALSE, value |-> 0]

\* calculateIRR: one pass of the loop, or the return after the loop
IrrStep(st) ==
  IF st.i >= MAX_ITER
  THEN [st EXCEPT !.done = TRUE, !.value = Annualize(st.irr),
                  !.nan = ~(Annualize(st.irr) >= 0 - 500)]
  ELSE The({IF WithinPrecision(npv)
            THEN [st EXCEPT !.done = TRUE, !.value = Annualize(st.irr)]
            ELSE [st EXCEPT !.min = IF npv > 0 THEN st.irr ELSE st.min,
                            !.max = IF npv > 0 THEN st.max ELSE st.irr,
                            !.irr = ((IF npv > 0 THEN st.irr ELSE st.min)
                                     + (IF npv > 0 THEN st.max ELSE st.irr)) \div 2,
                            !.i = st.i + 1] :
              npv \in {IrrNpv(st.cashFlows, st.principal, st.irr)}})

\* the bracket has closed on a rate strictly inside (0, 1): a positive
\* and a non-positive residual were seen one millionth apart
Bracketed(st) == st.min > 0 /\ st.max < RateScale /\ st.max - st.min <= 1

\* calculateIRR: one pass of the loop as the model steps it. The rate of
\* the model has six decimals and the code's has sixteen: once the
\* bracket of the model has closed on a root, the further passes of the
\* code bring the residual under PRECISION at this rate (the return
\* inside the loop); when it has closed on an end of [0, 1] the
\* residual keeps its sign and the code runs out of passes.
IrrAdvance(st) ==
  The({IF next.done THEN next
       ELSE IF Bracketed(next)
       THEN [next EXCEPT !.done = TRUE, !.value = Annualize(next.irr)]
       ELSE IF next.irr = st.irr /\ next.min = st.min /\ next.max = st.max
       THEN IrrStep([next EXCEPT !.i = MAX_ITER])
       ELSE next : next \in {IrrStep(st)}})

\* ------------------------------------------------------------------
\* valuationEngine.js: valueLoan after buildAmortSchedule
\* ------------------------------------------------------------------
\* valueLoan({ ..., riskFreeRate = 0.04, ... }), in basis points
riskFreeRate == 400

\* a risk tier's curve: premium in basis points, curve values in
\* hundredths of a percent, recovery in percent, lag in months
Curve(premium, cumulativeDefaultPct, valuesPct, grossRecoveryPct, lag) ==
  [riskPremiumBps |-> premium, cumulativeDefaultPct |-> cumulativeDefaultPct,
   valuesPct |-> valuesPct, grossRecoveryPct |-> grossRecoveryPct,
   recoveryLagMonths |-> lag]

\* VALUATION_CURVES.riskTiers as loaded, and as loaded again later; the
\* first table has no curve for VERY_HIGH
RiskTiers(curves) ==
  IF curves = "loaded"
  THEN [LOW |-> Curve(250, <<100, 300>>, <<500, 1000>>, 30, 0),
        MEDIUM |-> Curve(350, <<200, 500, 900>>, <<800>>, 22, 3),
        HIGH |-> Curve(550, <<10000>>, <<>>, 15, 2)]
  ELSE IF curves = "reloaded"
  THEN [LOW |-> Curve(200, <<50, 150>>, <<600, 1200>>, 35, 1),
        MEDIUM |-> Curve(300, <<150, 400, 700>>, <<900>>, 25, 6),
        HIGH |-> Curve(500, <<400, 900>>, <<300>>, 20, 12),
        VERY_HIGH |-> Curve(750, <<1000, 2000>>, <<200>>, 10, 12)]
  ELSE EmptyMap

\* amort.slice().reverse().find(r => r.loanDate <= today), as an index
\* of the schedule (0: no such row)
CurrentIndex(amort, now) ==
  LET upTo == {k \in DOMAIN amort : amort[k].loanDate <= now}
  IN IF upTo = {} THEN 0 ELSE CHOOSE k \in upTo : \A j \in upTo : j <= k

\* currentRow ? Number(currentRow.balance) : originalPrincipal, not below 0
CurrentBalance(amort, now, ln) ==
  LET k == CurrentIndex(amort, now)
      b == IF k > 0 THEN amort[k].balance * (Unit \div 100) ELSE ln.principal
  IN IF b < 0 THEN 0 ELSE b

\* Math.max(remainingMonths, 1)
TermMonths(amort, now, ln) ==
  LET k == CurrentIndex(amort, now)
  IN Max(IF k > 0 THEN Len(amort) - k ELSE originalTermMonthsOf(ln), 1)

\* the closed-form zero valuation
ZeroResult(b) ==
  [kind |-> "zero", riskTier |-> deriveRiskTier(b), discountRate |-> riskFreeRate,
   npv |-> 0, npvRatio |-> 0, expectedLoss |-> 0, wal |-> 0, irr |-> 0]

\* principal * r / (1 - Math.pow(1 + r, -months))
computeMonthlyPayment(principal, bps, months) ==
  The({TimesMonthlyRate(MulDiv(principal, f, f - PowScale), bps) :
         f \in {PowOnePlusRate(bps, months, PowScale)}})

\* valueLoan: the current row, the remaining term, the closed form
ValueLoanCurrentRow ==
  /\ pc = "done"
  /\ entry = "valueLoan"
  /\ error = "none"
  /\ result.kind = "none"
  /\ LET currentBalance == CurrentBalance(schedule, today, loan)
         termMonths == TermMonths(schedule, today, loan)
     IN IF currentBalance <= 0 \/ termMonths <= 0
        THEN /\ result' = ZeroResult(borrower)
             /\ pc' = "returned"
             /\ UNCHANGED vl
        ELSE /\ vl' = [NoLocals EXCEPT
                         !.currentIndex = CurrentIndex(schedule, today),
                         !.principal = currentBalance,
                         !.termMonths = termMonths,
                         !.monthlyPayment =
                           computeMonthlyPayment(currentBalance, loan.nominalRate,
                                                 termMonths)]
             /\ pc' = "risk"
             /\ UNCHANGED result
  /\ UNCHANGED <<entry, raw, loan, USERS, remote, VALUATION_CURVES, loopVars, log, error,
                 today, borrower, profile, SCHOOLTIERS, irr, callNo, previous, loans,
                 nextLoan, totals, fn, out>>

\* borrower.degreeType to the key of degreeAdjustmentsBps
normalizedDegree(degreeType) ==
  IF degreeType = "STEM" THEN "STEM"
  ELSE IF degreeType = "Business" THEN "BUSINESS"
  ELSE IF degreeType = "Liberal Arts" THEN "LIBERAL_ARTS"
  ELSE IF degreeType = "Professional (e.g. Nursing, Law)" THEN "PROFESSIONAL"
  ELSE IF degreeType = "Other" THEN "OTHER"
  ELSE "UNKNOWN"

\* borrower.yearInSchool >= 5 ? "5+" : String(borrower.yearInSchool)
yearKey(yearInSchool) ==
  IF parseInt(yearInSchool) >= 5 THEN "5+" ELSE yearInSchool

ficoAdj(b, assumptions) ==
  (IF b.borrowerFico # 0 THEN Coalesce(assumptions.ficoBorrowerAdjustment, 50) ELSE 0)
  + (IF b.cosignerFico # 0 THEN Coalesce(assumptions.ficoCosignerAdjustment, 25) ELSE 0)

\* VALUATION_CURVES?.riskTiers[riskTier] || { riskPremiumBps: 550 }
HasCurve(curves, riskTier) == riskTier \in DOMAIN RiskTiers(curves)
BasePremium(curves, riskTier) ==
  IF HasCurve(curves, riskTier) THEN RiskTiers(curves)[riskTier].riskPremiumBps
  ELSE 550

\* userRiskBps + degreeAdj + schoolAdj + yearAdj + gradAdj + ficoAdj
totalRiskBps(b, assumptions, curves, schoolTier) ==
  Lookup(assumptions.riskPremiumBps, deriveRiskTier(b),
         BasePremium(curves, deriveRiskTier(b)))
  + Lookup(assumptions.degreeAdjustmentsBps, normalizedDegree(b.degreeType), 0)
  + Lookup(assumptions.schoolAdjustmentsBps, schoolTier, getSchoolAdjBps(schoolTier))
  + Lookup(assumptions.yearInSchoolAdjustmentsBps, yearKey(b.yearInSchool), 0)
  + (IF b.isGraduateStudent THEN Coalesce(assumptions.graduateAdjustmentBps, 0) ELSE 0)
  + ficoAdj(b, assumptions)

\* riskBreakdown of the result: the components as the result reports
\* them, the base taken from the curve
riskBreakdown(b, assumptions, curves, schoolTier) ==
  [baseRiskBps |-> RiskTiers(curves)[deriveRiskTier(b)].riskPremiumBps,
   degreeAdj |->
     Lookup(assumptions.degreeAdjustmentsBps, normalizedDegree(b.degreeType), 0),
   schoolAdj |->
     Lookup(assumptions.schoolAdjustmentsBps, schoolTier, getSchoolAdjBps(schoolTier)),
   yearAdj |->
     Lookup(assumptions.yearInSchoolAdjustmentsBps, yearKey(b.yearInSchool), 0),
   gradAdj |->
     IF b.isGraduateStudent THEN Coalesce(assumptions.graduateAdjustmentBps, 0) ELSE 0,
   ficoAdj |-> ficoAdj(b, assumptions),
   totalRiskBps |-> totalRiskBps(b, assumptions, curves, schoolTier),
   schoolTier |-> schoolTier]

\* the premium without the cap
cappedRiskBps_Uncapped(total) == total

\* Math.min(totalRiskBps, 500)
cappedRiskBps(total) == Min(total, 500)

\* (profile.assumptions.baseRiskFreeRate ?? riskFreeRate * 100) / 100
effectiveRiskFreeRate(assumptions) ==
  Coalesce(assumptions.baseRiskFreeRate, riskFreeRate)

\* new Array(n).fill(0)
Zeros(n) == [k \in 1..n |-> 0]

\* valueLoan: risk tier, curve, discount rate, monthly vectors, the
\* locals of the cash-flow loop
ValueLoanRisk ==
  /\ pc = "risk"
  /\ LET riskTier == deriveRiskTier(borrower)
         schoolTier == getSchoolTier(SCHOOLTIERS, borrower.opeid, profile)
     IN IF schoolTier = "TypeError" \/ ~HasCurve(VALUATION_CURVES, riskTier)
        THEN /\ error' = "TypeError"
             /\ pc' = "raised"
             /\ UNCHANGED vl
        ELSE LET curve == RiskTiers(VALUATION_CURVES)[riskTier]
                 total == totalRiskBps(borrower, profile, VALUATION_CURVES, schoolTier)
             IN /\ vl' = [vl EXCEPT
                       !.riskTier = riskTier,
                       !.totalRiskBps = total,
                       !.riskBreakdown =
                         riskBreakdown(borrower, profile, VALUATION_CURVES, schoolTier),
                       !.cappedRiskBps = cappedRiskBps(total),
                       !.effectiveRiskFreeRate = effectiveRiskFreeRate(profile),
                       !.discountRate =
                         effectiveRiskFreeRate(profile) + cappedRiskBps(total),
                       !.recoveryPct =
                         Lookup(profile.recoveryRate, riskTier, curve.grossRecoveryPct),
                       !.recoveryLag = curve.recoveryLagMonths,
                       !.monthlyPD = interpolateCumulativeDefaultsToMonthlyPD(
                                       curve.cumulativeDefaultPct, vl.termMonths),
                       !.monthlySMM = interpolateAnnualCPRToMonthlySMM(
                                        curve.valuesPct, vl.termMonths),
                       !.m = 1,
                       !.balance = vl.principal,
                       !.cashFlows = <<0 - vl.principal>>,
                       !.recoveryQueue =
                         Zeros(vl.termMonths + curve.recoveryLagMonths + 1)]
                /\ pc' = "cashflow"
                /\ UNCHANGED error
  /\ SCHOOLTIERS' = SchoolTiersAfter(SCHOOLTIERS, borrower.opeid)
  /\ UNCHANGED <<entry, raw, loan, USERS, remote, VALUATION_CURVES, loopVars, log, result,
                 today, borrower, profile, irr, callNo, previous, loans,
                 nextLoan, totals, fn, out>>

\* the loop of valueLoan, a month with no balance left: continue
CashFlowSkip ==
  /\ pc = "cashflow"
  /\ vl.m <= vl.termMonths
  /\ vl.balance <= 0
  /\ vl' = [vl EXCEPT !.m = vl.m + 1, !.cashFlows = Append(vl.cashFlows, 0)]
  /\ UNCHANGED <<pc, entry, raw, loan, USERS, remote, VALUATION_CURVES, loopVars, log,
                 error, result, today, borrower, profile, SCHOOLTIERS, irr,
                 callNo, previous, loans, nextLoan, totals, fn, out>>

\* (profile.assumptions.prepaySeasoningYears ?? 2.5) * 12
seasoningMonths(assumptions) ==
  IF assumptions.prepaySeasoningYears = Missing THEN 30
  ELSE assumptions.prepaySeasoningYears * 12

\* x / Math.pow(1 + monthlyDiscountRate, month)
Discounted(x, discountRate, month) ==
  The({MulDiv(x, PowScale, f) : f \in {PowOnePlusRate(discountRate, month, PowScale)}})

\* the loop of valueLoan, a month with a balance
CashFlowMonth ==
  /\ pc = "cashflow"
  /\ vl.m <= vl.termMonths
  /\ vl.balance > 0
  /\ LET m == vl.m
         interest == TimesMonthlyRate(vl.balance, loan.nominalRate)
         scheduledPayment ==
           Min(IF m <= NumberOr(loan.graceYears, 0) * 12
               THEN interest ELSE vl.monthlyPayment,
               vl.balance + interest)
         scheduledPrincipal == Max(0, scheduledPayment - interest)
         remainingAfterScheduled == vl.balance - scheduledPrincipal
         effectiveMultiplier ==
           IF m >= seasoningMonths(profile)
           THEN Coalesce(profile.prepaymentMultiplier, 100) * 10
           ELSE Coalesce(profile.prepaymentMultiplier, 100)
         prepay == MulDiv(MulDiv(remainingAfterScheduled, vl.monthlySMM[m], RateScale),
                          effectiveMultiplier, 1000)
         defaultAmt == MulDiv(remainingAfterScheduled - prepay, vl.monthlyPD[m],
                              RateScale)
         remaining == remainingAfterScheduled - prepay - defaultAmt
         recMonth == m + vl.recoveryLag
         queued == recMonth < Len(vl.recoveryQueue)
         lateRecovery == MulDiv(defaultAmt, vl.recoveryPct, 100)
         queue == IF queued
                  THEN [vl.recoveryQueue EXCEPT ![recMonth + 1] = @ + lateRecovery]
                  ELSE vl.recoveryQueue
         recoveryThisMonth == queue[m + 1]
         cashFlow == interest + scheduledPrincipal + prepay + recoveryThisMonth
         discountedCF == Discounted(cashFlow, vl.discountRate, m)
     IN vl' = [vl EXCEPT
                 !.m = m + 1,
                 !.balance = remaining,
                 !.recoveryQueue = queue,
                 !.cashFlows = Append(vl.cashFlows, cashFlow),
                 !.monthlySchedule =
                   Append(vl.monthlySchedule,
                          [month |-> m, interest |-> interest,
                           scheduledPrincipal |-> scheduledPrincipal]),
                 !.npv = vl.npv + discountedCF
                         + (IF queued THEN 0
                            ELSE Discounted(lateRecovery, vl.discountRate, recMonth)),
                 !.walNumerator = vl.walNumerator + discountedCF * m,
                 !.totalCF = vl.totalCF + discountedCF,
                 !.totalDefaults = vl.totalDefaults + defaultAmt,
                 !.totalRecoveries = vl.totalRecoveries + recoveryThisMonth
                                     + (IF queued THEN 0 ELSE lateRecovery)]
  /\ UNCHANGED <<pc, entry, raw, loan, USERS, remote, VALUATION_CURVES, loopVars, log,
                 error, result, today, borrower, profile, SCHOOLTIERS, irr,
                 callNo, previous, loans, nextLoan, totals, fn, out>>

\* the result object of a full valuation; ratios in millionths, the
\* weighted-average life in thousandths of a year, the rates in
\* hundredths of a percent
ValuedResult(v, solved) ==
  [kind |-> "valued",
   riskTier |-> v.riskTier,
   discountRate |-> v.discountRate,
   npv |-> v.npv,
   npvRatio |-> MulDiv(v.npv, RateScale, v.principal) - RateScale,
   expectedLoss |-> IF v.totalDefaults - v.totalRecoveries > 0
                    THEN MulDiv(v.totalDefaults - v.totalRecoveries, RateScale,
                                v.principal)
                    ELSE 0,
   wal |-> IF v.totalCF > 0 THEN MulDiv(v.walNumerator, 1000, v.totalCF * 12) ELSE 0,
   irr |-> IF solved.nan THEN 0 ELSE solved.value,
   riskBreakdown |-> v.riskBreakdown]

\* valueLoan: after the loop, calculateIRR is entered
ValueLoanIrr ==
  /\ pc = "cashflow"
  /\ vl.m > vl.termMonths
  /\ irr' = IrrEnter(vl.cashFlows, vl.principal)
  /\ pc' = "irr"
  /\ UNCHANGED <<entry, raw, loan, USERS, remote, VALUATION_CURVES, loopVars, log, error,
                 result, today, borrower, profile, SCHOOLTIERS, vl, callNo,
                 previous, loans, nextLoan, totals, fn, out>>

\* calculateIRR: a pass of the bisection
IrrPass ==
  /\ pc = "irr"
  /\ ~irr.done
  /\ irr' = IrrAdvance(irr)
  /\ UNCHANGED <<pc, entry, raw, loan, USERS, remote, VALUATION_CURVES, loopVars, log,
                 error, result, today, borrower, profile, SCHOOLTIERS, vl, callNo,
                 previous, loans, nextLoan, totals, fn, out>>

\* valueLoan: safeIrr and the result
ValueLoanReturn ==
  /\ pc = "irr"
  /\ entry = "valueLoan"
  /\ irr.done
  /\ result' = ValuedResult(vl, irr)
  /\ pc' = "returned"
  /\ UNCHANGED <<entry, raw, loan, USERS, remote, VALUATION_CURVES, loopVars, log, error,
                 today, borrower, profile, SCHOOLTIERS, vl, irr, callNo, previous,
                 loans, nextLoan, totals, fn, out>>

\* ------------------------------------------------------------------
\* valueLoan: inputs
\* ------------------------------------------------------------------
\* loans with valid basics whose schedules end in different ways: at
\* maturity, after a grace period, by a default with a partial or a
\* full recovery, by a prepayment, in a deferral longer than the
\* contract; and one with principal 0
ValuedLoans ==
  {[BaseLoan EXCEPT !.termYears = MaxTermYears, !.graceYears = g, !.events = e] :
     g \in {0, MaxGraceYears},
     e \in {<<>>,
            <<Ev("default", 2, Dollars(200))>>,
            <<Ev("default", 2, Dollars(5000))>>,
            <<Ev("prepayment", 1, Dollars(5000))>>,
            <<Ev("deferral", 0, LongestContract + 1)>>}}
  \cup {[BaseLoan EXCEPT !.principal = 0]}

\* readings of the wall clock: before the loan starts, early in the
\* contract, in its middle, after every contract has ended
ClockReadings ==
  {StartMonth - 1, StartMonth + 1, StartMonth + 5, StartMonth + LongestContract + 5}

Borrower(fico, cosigner, year, grad, degree, opeid) ==
  [borrowerFico |-> fico, cosignerFico |-> cosigner, yearInSchool |-> year,
   isGraduateStudent |-> grad, degreeType |-> degree, opeid |-> opeid]

\* borrowers of every risk tier, with a known, a padded, an unknown and
\* no institution identifier
Borrowers ==
  {Borrower(790, 0, "3", FALSE, "STEM", "001234"),
   Borrower(765, 0, "5", TRUE, "Business", " 001234 "),
   Borrower(730, 745, "1", TRUE, "Liberal Arts", "null"),
   Borrower(650, 700, "Z", FALSE, "Other", "999999"),
   NoBorrower}

\* a profile that overrides the system assumptions
UserAssumptions ==
  [SystemAssumptions EXCEPT
     !.riskPremiumBps = [LOW |-> 100, MEDIUM |-> 300],
     !.recoveryRate = EmptyMap,
     !.prepaymentMultiplier = 150,
     !.baseRiskFreeRate = Missing,
     !.prepaySeasoningYears = 0,
     !.degreeAdjustmentsBps = [STEM |-> 0 - 50, BUSINESS |-> 25, LIBERAL_ARTS |-> 300],
     !.schoolAdjustmentsBps = ("Tier 1" :> (0 - 100)) @@ ("Tier 3" :> 200),
     !.yearInSchoolAdjustmentsBps = ("1" :> 40) @@ ("5+" :> (0 - 20)),
     !.graduateAdjustmentBps = 30]

Profiles == {SystemAssumptions, UserAssumptions}

School(grad, earnings) == [grad_rate |-> grad, median_earnings_10yr |-> earnings]

\* school tables: not loaded; loaded with a DEFAULT record; loaded
\* with a DEFAULT record of a strong school; loaded without DEFAULT
SchoolTables ==
  {NoSchoolTiers,
   [loaded |-> TRUE,
    table |-> ("001234" :> School(90, 80000)) @@ ("DEFAULT" :> School(0, NullEarnings))],
   [loaded |-> TRUE,
    table |-> ("001234" :> School(50, 40000)) @@ ("DEFAULT" :> School(80, 90000))],
   [loaded |-> TRUE, table |-> ("001234" :> School(70, Missing))]}

\* valueLoan is about to run: nothing computed yet
ValueLoanStart ==
  /\ pc = "raw"
  /\ loan = raw
  /\ schedule = <<>>
  /\ balance = 0
  /\ calendarDate = NoMonth
  /\ i = 0
  /\ deferralRemaining = 0
  /\ deferralTotal = 0
  /\ purchaseMonth = NoMonth
  /\ originalMonthlyPayment = 0
  /\ log = <<>>
  /\ error = "none"
  /\ result = NoResult
  /\ vl = NoLocals
  /\ irr = NoIrr
  /\ callNo = 0
  /\ previous = NoResult
  /\ loans = <<>>
  /\ nextLoan = 0
  /\ totals = NoTotals
  /\ fn = "valueLoan"
  /\ out = "none"

\* the arguments and module state of one call of valueLoan
ValueLoanInit ==
  /\ entry = "valueLoan"
  /\ remote = NoRemote
  /\ USERS = UsersFallback
  /\ \/ /\ raw \in ValuedLoans
        /\ today \in ClockReadings
        /\ borrower \in {Borrower(790, 0, "3", FALSE, "STEM", "001234"),
                         Borrower(730, 745, "1", TRUE, "Liberal Arts", "null")}
        /\ profile = SystemAssumptions
        /\ SCHOOLTIERS = NoSchoolTiers
        /\ VALUATION_CURVES \in {"loaded", "reloaded"}
     \/ /\ raw = [BaseLoan EXCEPT !.termYears = MaxTermYears]
        /\ today = StartMonth + 5
        /\ borrower \in Borrowers
        /\ profile \in Profiles
        /\ SCHOOLTIERS \in SchoolTables
        /\ VALUATION_CURVES \in {"null", "loaded", "reloaded"}
  /\ ValueLoanStart

ValueLoanNext ==
  \/ ValueLoanBasics
  \/ BuildAmortScheduleEnter
  \/ DefaultMonth
  \/ DeferralMonth
  \/ NormalMonth
  \/ LoopEnd
  \/ ValueLoanCurrentRow
  \/ ValueLoanRisk
  \/ CashFlowSkip
  \/ CashFlowMonth
  \/ ValueLoanIrr
  \/ IrrPass
  \/ ValueLoanReturn

SpecValueLoan == ValueLoanInit /\ [][ValueLoanNext]_vars

\* ------------------------------------------------------------------
\* valueLoan called twice with the same arguments
\* ------------------------------------------------------------------
\* the first call: its arguments, the clock and the module state
TwoCallsInit ==
  /\ entry = "valueLoan"
  /\ remote = NoRemote
  /\ USERS = UsersFallback
  /\ raw \in {[BaseLoan EXCEPT !.termYears = MaxTermYears],
              [BaseLoan EXCEPT !.termYears = MaxTermYears,
                               !.events = <<Ev("default", 2, Dollars(200))>>],
              [BaseLoan EXCEPT !.termYears = MaxTermYears,
                               !.events = <<Ev("deferral", 0, LongestContract + 1)>>],
              [BaseLoan EXCEPT !.principal = 0]}
  /\ today \in {StartMonth + 1, StartMonth + 5}
  /\ borrower \in {Borrower(790, 0, "3", FALSE, "STEM", "001234"),
                   Borrower(650, 700, "Z", FALSE, "Other", "999999")}
  /\ profile = SystemAssumptions
  /\ SCHOOLTIERS \in {NoSchoolTiers,
                      [loaded |-> TRUE,
                       table |-> ("001234" :> School(90, 80000))
                                 @@ ("DEFAULT" :> School(0, NullEarnings))]}
  /\ VALUATION_CURVES \in {"loaded", "reloaded"}
  /\ ValueLoanStart

\* a call of valueLoan has returned or raised
CallOver ==
  \/ pc \in {"returned", "raised"}
  \/ pc = "done" /\ result.kind = "sentinel"

\* what the call gave its caller
Outcome == IF error # "none" THEN [NoResult EXCEPT !.kind = "raised"] ELSE result

\* between the calls the wall clock moves on
ClockAdvance ==
  /\ callNo = 0
  /\ CallOver
  /\ \E later \in ClockReadings : later > today /\ today' = later
  /\ UNCHANGED <<pc, entry, raw, loan, USERS, remote, VALUATION_CURVES, loopVars, log,
                 error, result, borrower, profile, SCHOOLTIERS, vl, irr, callNo,
                 previous, loans, nextLoan, totals, fn, out>>

\* between the calls loadSchoolTiers replaces the school table
LoadSchoolTiers ==
  /\ callNo = 0
  /\ CallOver
  /\ \E table \in SchoolTables : table # SCHOOLTIERS /\ SCHOOLTIERS' = table
  /\ UNCHANGED <<pc, entry, raw, loan, USERS, remote, VALUATION_CURVES, loopVars, log,
                 error, result, today, borrower, profile, vl, irr, callNo,
                 previous, loans, nextLoan, totals, fn, out>>

\* valueLoan is called again with the arguments of the first call
SecondCall ==
  /\ callNo = 0
  /\ CallOver
  /\ previous' = Outcome
  /\ callNo' = 1
  /\ pc' = "raw"
  /\ loan' = raw
  /\ schedule' = <<>>
  /\ balance' = 0
  /\ calendarDate' = NoMonth
  /\ i' = 0
  /\ deferralRemaining' = 0
  /\ deferralTotal' = 0
  /\ purchaseMonth' = NoMonth
  /\ originalMonthlyPayment' = 0
  /\ error' = "none"
  /\ result' = NoResult
  /\ vl' = NoLocals
  /\ irr' = NoIrr
  /\ UNCHANGED <<entry, raw, USERS, remote, VALUATION_CURVES, log, today, borrower,
                 profile, SCHOOLTIERS, loans, nextLoan, totals, fn, out>>

TwoCallsNext == ValueLoanNext \/ ClockAdvance \/ LoadSchoolTiers \/ SecondCall

SpecTwoCalls == TwoCallsInit /\ [][TwoCallsNext]_vars

\* ------------------------------------------------------------------
\* deriveRiskTier and getSchoolTier called on their own
\* ------------------------------------------------------------------
\* buildAmortSchedule and valueLoan are not running
AmortIdle ==
  /\ entry = "direct"
  /\ raw = BaseLoan
  /\ remote = NoRemote
  /\ USERS = UsersFallback
  /\ VALUATION_CURVES = "loaded"
  /\ pc = "idle"
  /\ loan = raw
  /\ schedule = <<>>
  /\ balance = 0
  /\ calendarDate = NoMonth
  /\ i = 0
  /\ deferralRemaining = 0
  /\ deferralTotal = 0
  /\ purchaseMonth = NoMonth
  /\ originalMonthlyPayment = 0
  /\ log = <<>>
  /\ error = "none"
  /\ result = NoResult

\* scores on both sides of every band floor and of the floor of 780
FicoChoices == {0, 639, 640, 679, 680, 719, 720, 757, 758, 759, 760, 779, 780, 850}
CosignerChoices == {0, 764, 770, 850}

\* years in school as digits and as letters in either case, an
\* unknown letter, the empty string
YearChoices ==
  {"0", "1", "2", "3", "4", "5", "9", "A", "a", "B", "C", "d", "Z", "z", "X", "x", ""}

OpeidChoices == {"001234", " 001234 ", "999999", "null", ""}

TierInit ==
  /\ AmortIdle
  /\ \/ /\ borrower \in {Borrower(f, c, y, FALSE, "", "null") :
                           f \in FicoChoices, c \in CosignerChoices, y \in YearChoices}
        /\ profile = SystemAssumptions
        /\ SCHOOLTIERS = NoSchoolTiers
     \/ /\ borrower \in {Borrower(730, 0, "1", FALSE, "", o) : o \in OpeidChoices}
        /\ profile \in Profiles
        /\ SCHOOLTIERS \in SchoolTables
  /\ today = StartMonth
  /\ vl = NoLocals
  /\ irr = NoIrr
  /\ callNo = 0
  /\ previous = NoResult
  /\ loans = <<>>
  /\ nextLoan = 0
  /\ totals = NoTotals
  /\ fn = "none"
  /\ out = "none"

\* deriveRiskTier(borrower, assumptions)
DeriveRiskTierCall ==
  /\ fn = "none"
  /\ fn' = "deriveRiskTier"
  /\ out' = deriveRiskTier(borrower)
  /\ UNCHANGED <<pc, entry, raw, loan, USERS, remote, VALUATION_CURVES, loopVars, log,
                 error, result, today, borrower, profile, SCHOOLTIERS, vl, irr,
                 callNo, previous, loans, nextLoan, totals>>

\* getSchoolTier(school, opeid, assumptions)
GetSchoolTierCall ==
  /\ fn = "none"
  /\ fn' = "getSchoolTier"
  /\ out' = getSchoolTier(SCHOOLTIERS, borrower.opeid, profile)
  /\ SCHOOLTIERS' = SchoolTiersAfter(SCHOOLTIERS, borrower.opeid)
  /\ UNCHANGED <<pc, entry, raw, loan, USERS, remote, VALUATION_CURVES, loopVars, log,
                 error, result, today, borrower, profile, vl, irr,
                 callNo, previous, loans, nextLoan, totals>>

TierNext == DeriveRiskTierCall \/ GetSchoolTierCall

SpecTiers == TierInit /\ [][TierNext]_vars

\* ------------------------------------------------------------------
\* calculateIRR called on its own
\* ------------------------------------------------------------------
\* cash flows after the outlay, in dollars: one payment below, at and
\* above the principal of 100, far above it (a monthly rate over 1),
\* and level payments that sum to less and to more than the principal
IrrPayments ==
  {<<50>>, <<100>>, <<150>>, <<500>>, <<0, 0>>, <<30, 30, 30>>, <<40, 40, 40>>,
   <<10, 10, 10, 110>>, <<300, 300>>}

IrrCashFlows(payments, scale) ==
  <<0 - Dollars(100 * scale)>> \o [k \in DOMAIN payments |-> Dollars(payments[k] * scale)]

IrrInit ==
  /\ AmortIdle
  /\ today = StartMonth
  /\ borrower = NoBorrower
  /\ profile = SystemAssumptions
  /\ SCHOOLTIERS = NoSchoolTiers
  /\ vl = NoLocals
  /\ \E payments \in IrrPayments, scale \in {1, 10} :
       irr = IrrEnter(IrrCashFlows(payments, scale), Dollars(100 * scale))
  /\ callNo = 0
  /\ previous = NoResult
  /\ loans = <<>>
  /\ nextLoan = 0
  /\ totals = NoTotals
  /\ fn = "calculateIRR"
  /\ out = "none"

\* calculateIRR entered
IrrCall ==
  /\ fn = "calculateIRR"
  /\ pc = "idle"
  /\ pc' = "irr"
  /\ UNCHANGED <<entry, raw, loan, USERS, remote, VALUATION_CURVES, loopVars, log, error,
                 result, today, borrower, profile, SCHOOLTIERS, vl, irr, callNo,
                 previous, loans, nextLoan, totals, fn, out>>

\* calculateIRR returns: the annualized rate, or not-a-number
IrrReturn ==
  /\ fn = "calculateIRR"
  /\ pc = "irr"
  /\ irr.done
  /\ out' = IF irr.nan THEN "NaN" ELSE "finite"
  /\ pc' = "returned"
  /\ UNCHANGED <<entry, raw, loan, USERS, remote, VALUATION_CURVES, loopVars, log, error,
                 result, today, borrower, profile, SCHOOLTIERS, vl, irr, callNo,
                 previous, loans, nextLoan, totals, fn>>

IrrNext == IrrCall \/ IrrPass \/ IrrReturn

SpecIrr == IrrInit /\ [][IrrNext]_vars

\* ------------------------------------------------------------------
\* valuationEngine.js: computePortfolioValuation
\* ------------------------------------------------------------------
\* the longest batch
MaxBatch == 2

\* a loan of the batch with its borrower and the share the user owns,
\* in percent (above 0: the loan passed the ownership filter)
Holding(ln, b, pct) == [loan |-> ln, borrower |-> b, pct |-> pct]

\* holdings whose valuation is a full one, the closed-form zero (paid
\* off by a prepayment), one after a default, one of a loan in a
\* deferral, one of a borrower of the HIGH tier whose curve defaults the
\* whole balance, the sentinel (principal 0), or raises (the
\* start date is invalid; the borrower's tier has no curve); one has no
\* rate
Holdings ==
  {Holding([BaseLoan EXCEPT !.termYears = MaxTermYears],
           Borrower(790, 0, "3", FALSE, "STEM", "001234"), 100),
   Holding([BaseLoan EXCEPT !.termYears = MaxTermYears, !.nominalRate = 0],
           Borrower(730, 745, "1", TRUE, "Liberal Arts", "null"), 50),
   Holding([BaseLoan EXCEPT !.termYears = MaxTermYears,
                            !.events = <<Ev("prepayment", 1, Dollars(5000))>>],
           Borrower(790, 0, "3", FALSE, "STEM", "001234"), 100),
   Holding([BaseLoan EXCEPT !.termYears = MaxTermYears,
                            !.events = <<Ev("default", 2, Dollars(200))>>],
           Borrower(790, 0, "3", FALSE, "STEM", "001234"), 100),
   Holding([BaseLoan EXCEPT !.termYears = MaxTermYears,
                            !.events = <<Ev("deferral", 0, LongestContract + 1)>>],
           Borrower(790, 0, "3", FALSE, "STEM", "001234"), 100),
   Holding([BaseLoan EXCEPT !.termYears = MaxTermYears],
           Borrower(650, 700, "Z", FALSE, "Other", "999999"), 100),
   Holding([BaseLoan EXCEPT !.principal = 0],
           Borrower(790, 0, "3", FALSE, "STEM", "001234"), 100),
   Holding([BaseLoan EXCEPT !.loanStartDate = DMalformed],
           Borrower(790, 0, "3", FALSE, "STEM", "001234"), 100),
   Holding([BaseLoan EXCEPT !.termYears = MaxTermYears], NoBorrower, 100)}

Batches == UNION {[1..n -> Holdings] : n \in 1..MaxBatch}

NoOutput == [kind |-> "none"]

PortfolioInit ==
  /\ AmortIdle
  /\ today = StartMonth + 5
  /\ borrower = NoBorrower
  /\ profile = SystemAssumptions
  /\ SCHOOLTIERS = NoSchoolTiers
  /\ vl = NoLocals
  /\ irr = NoIrr
  /\ callNo = 0
  /\ previous = NoResult
  /\ loans \in Batches
  /\ nextLoan = 1
  /\ totals = NoTotals
  /\ fn = "computePortfolioValuation"
  /\ out = NoOutput

InPortfolio == fn = "computePortfolioValuation"

\* the map callback up to its call of valueLoan: the borrower, the
\* rate replaced when it is not positive
PortfolioValueLoan ==
  /\ InPortfolio
  /\ pc = "idle"
  /\ nextLoan <= Len(loans)
  /\ loans' = [loans EXCEPT
                 ![nextLoan].loan.nominalRate = IF @ <= 0 THEN 800 ELSE @]
  /\ raw' = loans'[nextLoan].loan
  /\ borrower' = loans[nextLoan].borrower
  /\ entry' = "valueLoan"
  /\ pc' = "raw"
  /\ loan' = raw'
  /\ schedule' = <<>>
  /\ balance' = 0
  /\ calendarDate' = NoMonth
  /\ i' = 0
  /\ deferralRemaining' = 0
  /\ deferralTotal' = 0
  /\ purchaseMonth' = NoMonth
  /\ originalMonthlyPayment' = 0
  /\ result' = NoResult
  /\ vl' = NoLocals
  /\ irr' = NoIrr
  /\ UNCHANGED <<USERS, remote, VALUATION_CURVES, log, error, today, profile, SCHOOLTIERS,
                 callNo, previous, nextLoan, totals, fn, out>>

\* the map callback after valueLoan has returned: buildAmortSchedule(loan)
PortfolioBuildAmort ==
  /\ InPortfolio
  /\ entry = "valueLoan"
  /\ \/ pc = "returned"
     \/ pc = "done" /\ result.kind = "sentinel"
  /\ entry' = "direct"
  /\ pc' = "call"
  /\ UNCHANGED <<raw, loan, USERS, remote, VALUATION_CURVES, loopVars, log, error, result,
                 today, borrower, profile, SCHOOLTIERS, vl, irr, callNo, previous,
                 loans, nextLoan, totals, fn, out>>

\* the fields of a valuation that the sums read: not-a-number in the
\* sentinel, undefined (no expectedLossPct field) in the sentinel and
\* in the closed-form zero valuation
NotNumbers(valuation) ==
  IF valuation.kind = "sentinel" THEN {"npv", "expectedLossPct", "wal", "irr"}
  ELSE IF valuation.kind = "zero" THEN {"expectedLossPct"}
  ELSE {}

\* a sum after += x * weight, the weight in units of money
Weighted(sum, x, weight) == sum + MulDiv(x, weight, Unit)

\* the map callback after buildAmortSchedule: the prorated values and
\* the running sums
PortfolioAccumulate ==
  /\ InPortfolio
  /\ entry = "direct"
  /\ pc = "done"
  /\ LET displayPrincipal == MulDiv(raw.principal, loans[nextLoan].pct, 100)
         nans == NotNumbers(result)
     IN totals' =
          [totalPrincipal |-> totals.totalPrincipal + displayPrincipal,
           totalNPV |->
             IF "npv" \in nans THEN totals.totalNPV
             ELSE totals.totalNPV + MulDiv(result.npv, loans[nextLoan].pct, 100),
           totalExpectedLossWeighted |->
             IF "expectedLossPct" \in nans THEN totals.totalExpectedLossWeighted
             ELSE Weighted(totals.totalExpectedLossWeighted, result.expectedLoss,
                           displayPrincipal),
           totalWALWeighted |->
             IF "wal" \in nans THEN totals.totalWALWeighted
             ELSE Weighted(totals.totalWALWeighted, result.wal, displayPrincipal),
           totalIRRWeighted |->
             IF "irr" \in nans THEN totals.totalIRRWeighted
             ELSE Weighted(totals.totalIRRWeighted, result.irr, displayPrincipal),
           totalPrincipalForWeights |->
             totals.totalPrincipalForWeights + displayPrincipal,
           nonFinite |->
             totals.nonFinite
               \cup (IF "npv" \in nans THEN {"totalNPV"} ELSE {})
               \cup (IF "expectedLossPct" \in nans
                     THEN {"totalExpectedLossWeighted"} ELSE {})
               \cup (IF "wal" \in nans THEN {"totalWALWeighted"} ELSE {})
               \cup (IF "irr" \in nans THEN {"totalIRRWeighted"} ELSE {})]
  /\ nextLoan' = nextLoan + 1
  /\ pc' = "idle"
  /\ UNCHANGED <<entry, raw, loan, USERS, remote, VALUATION_CURVES, loopVars, log, error,
                 result, today, borrower, profile, SCHOOLTIERS, vl, irr, callNo,
                 previous, loans, fn, out>>

\* the totals returned; the names of those that are not finite numbers
PortfolioTotals(t) ==
  [kind |-> "totals",
   totalPrincipal |-> t.totalPrincipal,
   totalNPV |-> t.totalNPV,
   totalNPVPercent |->
     IF t.totalPrincipal > 0
     THEN MulDiv(t.totalNPV, 10000, t.totalPrincipal) - 10000 ELSE 0,
   totalExpLoss |->
     IF t.totalPrincipalForWeights > 0
     THEN MulDiv(t.totalExpectedLossWeighted, Unit, t.totalPrincipalForWeights)
     ELSE 0,
   totalWAL |->
     IF t.totalPrincipalForWeights > 0
     THEN MulDiv(t.totalWALWeighted, Unit, t.totalPrincipalForWeights) ELSE 0,
   totalIRR |->
     IF t.totalPrincipalForWeights > 0
     THEN MulDiv(t.totalIRRWeighted, Unit, t.totalPrincipalForWeights) ELSE 0,
   nonFinite |->
     (IF "totalNPV" \in t.nonFinite THEN {"totalNPV"} ELSE {})
       \cup (IF "totalNPV" \in t.nonFinite /\ t.totalPrincipal > 0
             THEN {"totalNPVPercent"} ELSE {})
       \cup (IF "totalExpectedLossWeighted" \in t.nonFinite
                  /\ t.totalPrincipalForWeights > 0
             THEN {"totalExpLoss"} ELSE {})
       \cup (IF "totalWALWeighted" \in t.nonFinite /\ t.totalPrincipalForWeights > 0
             THEN {"totalWAL"} ELSE {})
       \cup (IF "totalIRRWeighted" \in t.nonFinite /\ t.totalPrincipalForWeights > 0
             THEN {"totalIRR"} ELSE {})]

\* after the map: the ratios and the return
PortfolioReturn ==
  /\ InPortfolio
  /\ pc = "idle"
  /\ nextLoan > Len(loans)
  /\ out' = PortfolioTotals(totals)
  /\ pc' = "over"
  /\ UNCHANGED <<entry, raw, loan, USERS, remote, VALUATION_CURVES, loopVars, log, error,
                 result, today, borrower, profile, SCHOOLTIERS, vl, irr, callNo,
                 previous, loans, nextLoan, totals, fn>>

\* an exception of valueLoan or buildAmortSchedule leaves the map
\* callback and computePortfolioValuation: nothing catches it
PortfolioRaise ==
  /\ InPortfolio
  /\ pc = "raised"
  /\ out' = [kind |-> "exception"]
  /\ pc' = "over"
  /\ UNCHANGED <<entry, raw, loan, USERS, remote, VALUATION_CURVES, loopVars, log, error,
                 result, today, borrower, profile, SCHOOLTIERS, vl, irr, callNo,
                 previous, loans, nextLoan, totals, fn>>

PortfolioNext ==
  \/ PortfolioValueLoan
  \/ ValueLoanNext
  \/ PortfolioBuildAmort
  \/ PortfolioAccumulate
  \/ PortfolioReturn
  \/ PortfolioRaise

SpecPortfolio == PortfolioInit /\ [][PortfolioNext]_vars

\* ------------------------------------------------------------------
\* earningsEngine.js: buildEarningsSchedule
\* ------------------------------------------------------------------
\* a lot with the share it buys, in percent
OwnedLot(u, d, p) == [user |-> u, purchaseDate |-> d, pct |-> p]

\* the lots the reduce adds for a user: the lot names the user and its
\* purchaseDate parses to a valid Date
CountedLots(lots, user) ==
  {k \in DOMAIN lots :
     /\ lots[k].user = user
     /\ parseISODateLocal(lots[k].purchaseDate).kind = "date"}

\* the lots of the user whose purchaseDate makes parseISODateLocal throw
ThrowingLots(lots, user) ==
  {k \in DOMAIN lots :
     /\ lots[k].user = user
     /\ parseISODateLocal(lots[k].purchaseDate).kind = "throw"}

\* the sum of f over the set S
RECURSIVE SumOver(_, _)
SumOver(f, S) ==
  IF S = {} THEN 0
  ELSE LET k == CHOOSE x \in S : TRUE IN f[k] + SumOver(f, S \ {k})

\* variant: a lot becomes active the month after its purchase month
ownershipPct_MonthAfter(lots, user, loanDate) ==
  SumOver([k \in DOMAIN lots |-> lots[k].pct],
          {k \in CountedLots(lots, user) :
             loanDate > parseISODateLocal(lots[k].purchaseDate).m})

\* const ownershipPct = ownershipLots.reduce(...): a lot is active from
\* the first of its purchase month on
ownershipPct(lots, user, loanDate) ==
  SumOver([k \in DOMAIN lots |-> lots[k].pct],
          {k \in CountedLots(lots, user) :
             loanDate >= parseISODateLocal(lots[k].purchaseDate).m})

\* normalized: the amort row with its calendar month and its ownership
NormalizedRow(row, idx, loanStart, lots, user) ==
  LET loanDate == loanStart + (row.monthIndex - 1)
      pct == ownershipPct(lots, user, loanDate)
  IN [row EXCEPT !.loanDate = loanDate, !.isOwned = pct > 0]
       @@ [ownershipPct |-> pct, isFirstPeriod |-> idx = 1]

\* let upfrontFeeThisMonth, in cents: the setup fee of each lot that
\* starts in the row's month, scaled by the lot's share
upfrontFeeThisMonth(row, lots, user, flags) ==
  IF row.isOwned /\ ~flags.waiveAll /\ ~flags.waiveSetup
  THEN SumOver([k \in DOMAIN lots |-> SetupFee * lots[k].pct],
               {k \in CountedLots(lots, user) :
                  row.loanDate = parseISODateLocal(lots[k].purchaseDate).m})
  ELSE 0

\* let monthlyBalanceFee, in cents
monthlyBalanceFee(row, flags) ==
  IF row.isOwned /\ row.balance > 0 /\ row.payment > 0 /\ ~flags.waiveAll
  THEN MulDiv(row.balance * MonthlyServicingBps, row.ownershipPct, 10000 * 100)
  ELSE 0

\* principalThisMonth, interestThisMonth and feesThisMonth of a row, in
\* cents: what was paid, scaled by the share; nothing in a deferral
EarningsOfRow(row, lots, user, flags) ==
  LET deferred == row.isDeferred
      fee == upfrontFeeThisMonth(row, lots, user, flags)
               + monthlyBalanceFee(row, flags)
      counted == row.isOwned /\ ~deferred
  IN [principal |->
        IF counted
        THEN MulDiv(row.scheduledPrincipal + row.prepaymentPrincipal,
                    row.ownershipPct, 100)
        ELSE 0,
      interest |->
        IF counted /\ row.payment > 0
        THEN MulDiv(row.interest, row.ownershipPct, 100) ELSE 0,
      fees |-> IF counted \/ deferred THEN fee ELSE 0,
      feeThisMonth |-> fee]

\* the running sum of a column over the rows 1..k
RECURSIVE CumulativeTo(_, _)
CumulativeTo(column, k) ==
  IF k = 0 THEN 0 ELSE column[k] + CumulativeTo(column, k - 1)

\* const earnings = normalized.map(...)
EarningsRows(rows, lots, user, flags) ==
  LET e == [k \in DOMAIN rows |-> EarningsOfRow(rows[k], lots, user, flags)]
      principal == [k \in DOMAIN rows |-> e[k].principal]
      interest == [k \in DOMAIN rows |-> e[k].interest]
      fees == [k \in DOMAIN rows |-> e[k].fees]
  IN [k \in DOMAIN rows |->
        [rows[k] EXCEPT !.cumPrincipal = CumulativeTo(principal, k),
                        !.cumInterest = CumulativeTo(interest, k),
                        !.feeThisMonth = e[k].feeThisMonth,
                        !.principalPaid = e[k].principal]
          @@ [cumFees |-> CumulativeTo(fees, k),
              netEarnings |-> CumulativeTo(principal, k)
                                + CumulativeTo(interest, k)
                                - CumulativeTo(fees, k),
              monthlyPrincipal |-> e[k].principal,
              monthlyInterest |-> e[k].interest,
              monthlyFees |-> e[k].fees,
              monthlyNet |-> e[k].principal + e[k].interest - e[k].fees,
              interestPaid |-> e[k].interest,
              isDeferralMonth |-> rows[k].isDeferred]]

\* .sort((a, b) => a.loanDate - b.loanDate), a stable sort
SortByLoanDate(rows) ==
  LET rank(k) ==
        1 + Cardinality({j \in DOMAIN rows :
                           \/ rows[j].loanDate < rows[k].loanDate
                           \/ rows[j].loanDate = rows[k].loanDate /\ j < k})
  IN [p \in DOMAIN rows |-> rows[CHOOSE k \in DOMAIN rows : rank(k) = p]]

\* r => r.isOwned === true && Number(r.ownershipPct || 0) > 0
IsOwnedEarning(r) == r.isOwned /\ r.ownershipPct > 0

\* buildEarningsSchedule({ amortSchedule, loanStartDate, ownershipLots,
\* user }): the rows returned, or the error thrown
buildEarningsSchedule(amortSchedule, loanStartDate, lots, user, users) ==
  LET loanStart == parseISODateLocal(loanStartDate)
      flags == resolveFeeWaiverFlags(users, user, [feeWaiver |-> "none"])
      normalized ==
        [k \in DOMAIN amortSchedule |->
           NormalizedRow(amortSchedule[k], k, loanStart.m, lots, user)]
  IN IF Len(amortSchedule) = 0 THEN [kind |-> "rows", rows |-> <<>>]
     ELSE IF loanStart.kind = "throw"
     THEN [kind |-> "raised", rows |-> <<>>]
     ELSE IF loanStart.kind = "null"
     THEN [kind |-> "raised", rows |-> <<>>]
     ELSE IF loanStart.kind = "invalid"
     THEN [kind |-> "raised", rows |-> <<>>]
     ELSE IF ThrowingLots(lots, user) # {}
     THEN [kind |-> "raised", rows |-> <<>>]
     ELSE [kind |-> "rows",
           rows |-> SortByLoanDate(
                      SelectSeq(EarningsRows(normalized, lots, user, flags),
                                IsOwnedEarning))]

\* lots of two users: none; one; two of the same user bought in
\* different months; a lot of no share before one with a share; lots
\* bought before the loan starts and after it ends; lots whose date is
\* missing, malformed or not a string
EarningsLots ==
  {<<>>,
   <<OwnedLot("lena", MkDate(StartMonth + 2, 5), 40)>>,
   <<OwnedLot("lena", MkDate(StartMonth + 6, 28), 25),
     OwnedLot("gary", MkDate(StartMonth + 1, 9), 50),
     OwnedLot("lena", MkDate(StartMonth + 3, 1), 30)>>,
   <<OwnedLot("lena", MkDate(StartMonth + 1, 1), 0),
     OwnedLot("lena", MkDate(StartMonth + 4, 15), 100)>>,
   <<OwnedLot("gary", MkDate(StartMonth - 2, 20), 60),
     OwnedLot("lena", MkDate(StartMonth + LongestContract + 2, 1), 40)>>,
   <<OwnedLot("lena", DEmpty, 50),
     OwnedLot("lena", DMalformed, 20),
     OwnedLot("lena", MkDate(StartMonth + 2, 2), 30),
     OwnedLot("gary", MkUSDate(StartMonth + 1, 7), 10)>>,
   <<OwnedLot("gary", DNonString, 50),
     OwnedLot("lena", MkDate(StartMonth, 15), 50)>>}

\* the loans whose schedules are handed over: one year, with a grace
\* period, with a deferral, with a prepayment that pays the loan off,
\* and one of no months at all
EarningsLoans ==
  {[BaseLoan EXCEPT !.termYears = t, !.graceYears = g, !.events = e,
                    !.ownershipLots = lots, !.user = u] :
     t \in {0, MaxTermYears}, g \in {0, MaxGraceYears},
     e \in {<<>>, <<Ev("deferral", 1, MaxDeferMonths)>>,
            <<Ev("prepayment", 4, Dollars(5000))>>},
     lots \in EarningsLots, u \in {"lena", "gary"}}

EarningsInit ==
  /\ entry = "direct"
  /\ raw \in EarningsLoans
  /\ remote = NoRemote
  /\ USERS = UsersLoaded
  /\ VALUATION_CURVES = "loaded"
  /\ pc = "call"
  /\ loan = raw
  /\ schedule = <<>>
  /\ balance = 0
  /\ calendarDate = NoMonth
  /\ i = 0
  /\ deferralRemaining = 0
  /\ deferralTotal = 0
  /\ purchaseMonth = NoMonth
  /\ originalMonthlyPayment = 0
  /\ log = <<>>
  /\ error = "none"
  /\ result = NoResult
  /\ today = StartMonth
  /\ borrower = NoBorrower
  /\ profile = SystemAssumptions
  /\ SCHOOLTIERS = NoSchoolTiers
  /\ vl = NoLocals
  /\ irr = NoIrr
  /\ callNo = 0
  /\ previous = NoResult
  /\ loans = <<>>
  /\ nextLoan = 0
  /\ totals = NoTotals
  /\ fn = "buildEarningsSchedule"
  /\ out = NoOutput

\* buildEarningsSchedule applied to the schedule buildAmortSchedule
\* returned for the loan
BuildEarningsScheduleCall ==
  /\ fn = "buildEarningsSchedule"
  /\ pc = "done"
  /\ out.kind = "none"
  /\ out' = buildEarningsSchedule(schedule, raw.loanStartDate,
                                  raw.ownershipLots, raw.user, USERS)
  /\ pc' = "returned"
  /\ UNCHANGED <<entry, raw, loan, USERS, remote, VALUATION_CURVES, loopVars, log,
                 error, result, today, borrower, profile, SCHOOLTIERS, vl, irr,
                 callNo, previous, loans, nextLoan, totals, fn>>

EarningsNext ==
  \/ BuildAmortScheduleEnter
  \/ DeferralMonth
  \/ NormalMonth
  \/ LoopEnd
  \/ BuildEarningsScheduleCall

SpecEarnings == EarningsInit /\ [][EarningsNext]_vars

\* ------------------------------------------------------------------
\* roiEngine.js: normalizeOwnership
\* ------------------------------------------------------------------
MARKET_USER == "Market"
OWNERSHIP_STEP == 5

Allocation(u, p) == [user |-> u, percent |-> p]

\* loan.ownership is missing, or has no array of allocations
NoOwnership == [isArray |-> FALSE, unit |-> "none", step |-> 0, allocations |-> <<>>]

Ownership(allocations) ==
  [isArray |-> TRUE, unit |-> "percent", step |-> OWNERSHIP_STEP,
   allocations |-> allocations]

\* a.user !== MARKET_USER
NotMarket(a) == a.user # MARKET_USER

\* the sum of the percents of a list of allocations
RECURSIVE SumPercent(_)
SumPercent(allocations) ==
  IF allocations = <<>> THEN 0
  ELSE Head(allocations).percent + SumPercent(Tail(allocations))

\* step 1: loan.ownership after the allocation model is ensured
NormalizedAllocations(ownership) ==
  IF ~ownership.isArray
  THEN Ownership(<<Allocation(MARKET_USER, 100)>>)
  ELSE LET others == SelectSeq(ownership.allocations, NotMarket)
           assigned == SumPercent(others)
           marketPct == Max(0, 100 - assigned)
       IN [ownership EXCEPT
             !.allocations = Append(others, Allocation(MARKET_USER, marketPct))]

\* a falsy date: undefined, null or the empty string
Falsy(d) == d \in {DUndefined, DNull, DEmpty}

\* loan.purchaseDate || loan.loanStartDate || null
LotDateOf(ln) ==
  IF ~Falsy(ln.purchaseDate) THEN ln.purchaseDate
  ELSE IF ~Falsy(ln.loanStartDate) THEN ln.loanStartDate
  ELSE DNull

\* step 2: loan.ownershipLots, created from the allocations when the
\* loan has none (pct in percent, pricePaid in units of money)
NormalizedLots(ln, ownership) ==
  IF Len(ln.ownershipLots) > 0 THEN ln.ownershipLots
  ELSE LET userAllocs == SelectSeq(ownership.allocations, NotMarket)
       IN IF Len(userAllocs) = 0
          THEN <<[user |-> IF ln.user = "null" THEN "jeff" ELSE ln.user,
                  pct |-> 100, pricePaid |-> ln.principal,
                  purchaseDate |-> LotDateOf(ln)]>>
          ELSE [k \in DOMAIN userAllocs |->
                  [user |-> userAllocs[k].user, pct |-> userAllocs[k].percent,
                   pricePaid |-> ln.principal, purchaseDate |-> LotDateOf(ln)]]

\* step 3: loan.purchaseDate, derived from the earliest lot when missing
DerivedPurchaseDate(ln, lots) ==
  LET validDates == {lots[k].purchaseDate : k \in DOMAIN lots} \cap
                      {d \in {lots[k].purchaseDate : k \in DOMAIN lots} : IsISO(d)}
  IN IF Falsy(ln.purchaseDate) /\ Len(lots) > 0
     THEN IF validDates # {} THEN EarliestDate(validDates)
          ELSE IF ~Falsy(ln.loanStartDate) THEN ln.loanStartDate
          ELSE ln.purchaseDate
     ELSE ln.purchaseDate

\* lot.purchaseDate?.trim() on a value that is no string
TrimThrows(ln, lots) ==
  /\ Falsy(ln.purchaseDate)
  /\ \E k \in DOMAIN lots : lots[k].purchaseDate = DNonString

\* lot => lot.user && Number(lot.pct) > 0 && lot.purchaseDate
KeptLot(lot) == lot.user # "" /\ lot.pct > 0 /\ ~Falsy(lot.purchaseDate)

\* the loan after normalizeOwnership(loan) has returned; when the third
\* step throws, the first two have already been written
normalizeOwnership(ln) ==
  LET ownership == NormalizedAllocations(ln.ownership)
      lots == NormalizedLots(ln, ownership)
  IN IF TrimThrows(ln, lots)
     THEN [ln EXCEPT !.ownership = ownership, !.ownershipLots = lots]
     ELSE [ln EXCEPT !.ownership = ownership,
                     !.purchaseDate = DerivedPurchaseDate(ln, lots),
                     !.ownershipLots = SelectSeq(lots, KeptLot)]

\* allocation lists: none; Market alone; users below, at and above 100
\* in total; a stale Market entry, two of them, one that is not last; a
\* negative percent; a percent of 0
AllocationLists ==
  {<<>>,
   <<Allocation(MARKET_USER, 100)>>,
   <<Allocation("jeff", 40)>>,
   <<Allocation("jeff", 40), Allocation(MARKET_USER, 10)>>,
   <<Allocation(MARKET_USER, 30), Allocation("jeff", 40), Allocation("nick", 35)>>,
   <<Allocation(MARKET_USER, 30), Allocation("jeff", 60), Allocation(MARKET_USER, 30)>>,
   <<Allocation("jeff", 100)>>,
   <<Allocation("jeff", 70), Allocation("nick", 50)>>,
   <<Allocation("jeff", 0 - 20), Allocation("nick", 50)>>,
   <<Allocation("jeff", 0), Allocation(MARKET_USER, 100)>>}

\* the lots the loan arrives with: none, dated and undated ones, one of
\* no share, one whose date is not a string
LotLists ==
  {<<>>,
   <<OwnedLot("jeff", MkDate(StartMonth + 2, 5), 40),
     OwnedLot("nick", MkDate(StartMonth + 1, 9), 35)>>,
   <<OwnedLot("jeff", DEmpty, 40), OwnedLot("nick", MkDate(StartMonth + 1, 9), 0)>>,
   <<OwnedLot("jeff", DMalformed, 40)>>,
   <<OwnedLot("jeff", DNonString, 40)>>}

AllocatedLoans ==
  {[BaseLoan EXCEPT !.ownershipLots = lots, !.purchaseDate = d,
                    !.loanStartDate = s, !.user = u]
     @@ [ownership |-> o] :
     lots \in LotLists, d \in {DUndefined, DEmpty, MkDate(StartMonth + 3, 28)},
     s \in {StartDate, DEmpty}, u \in {"null", "nick"},
     o \in {NoOwnership} \cup {Ownership(a) : a \in AllocationLists}}

NormalizeInit ==
  /\ entry = "direct"
  /\ raw \in AllocatedLoans
  /\ remote = NoRemote
  /\ USERS = UsersFallback
  /\ VALUATION_CURVES = "loaded"
  /\ pc = "idle"
  /\ loan = raw
  /\ schedule = <<>>
  /\ balance = 0
  /\ calendarDate = NoMonth
  /\ i = 0
  /\ deferralRemaining = 0
  /\ deferralTotal = 0
  /\ purchaseMonth = NoMonth
  /\ originalMonthlyPayment = 0
  /\ log = <<>>
  /\ error = "none"
  /\ result = NoResult
  /\ today = StartMonth
  /\ borrower = NoBorrower
  /\ profile = SystemAssumptions
  /\ SCHOOLTIERS = NoSchoolTiers
  /\ vl = NoLocals
  /\ irr = NoIrr
  /\ callNo = 0
  /\ previous = NoResult
  /\ loans = <<>>
  /\ nextLoan = 0
  /\ totals = NoTotals
  /\ fn = "normalizeOwnership"
  /\ out = "none"

\* normalizeOwnership(loan): the loan is rewritten in place
NormalizeOwnershipCall ==
  /\ fn = "normalizeOwnership"
  /\ pc = "idle"
  /\ loan' = normalizeOwnership(loan)
  /\ error' = IF TrimThrows(loan, NormalizedLots(loan, NormalizedAllocations(loan.ownership)))
              THEN "TypeError" ELSE "none"
  /\ pc' = IF error' = "none" THEN "returned" ELSE "raised"
  /\ UNCHANGED <<entry, raw, USERS, remote, VALUATION_CURVES, loopVars, log, result,
                 today, borrower, profile, SCHOOLTIERS, vl, irr, callNo,
                 previous, loans, nextLoan, totals, fn, out>>

NormalizeNext == NormalizeOwnershipCall

SpecNormalize == NormalizeInit /\ [][NormalizeNext]_vars

\* ------------------------------------------------------------------
\* loanEngine.js: resolveFeeWaiverFlags applied on its own
\* ------------------------------------------------------------------
\* waivers as stored: every token, joined either way, in upper case,
\* with a second "+", the empty string
UserWaivers ==
  {"none", "", "all", "setup", "grace", "setup_grace", "setup+grace",
   "ALL", "Setup_Grace", "grace+setup+all"}

\* a loan may also carry no waiver at all
LoanWaivers == UserWaivers \cup {"null"}

\* the table of users in which lena has the waiver w
UsersWithWaiver(w) == [u \in {"lena"} |-> [role |-> "lender", feeWaiver |-> w]]

WaiverInit ==
  /\ entry = "direct"
  /\ raw \in {[BaseLoan EXCEPT !.feeWaiver = w, !.user = u] :
                w \in LoanWaivers, u \in {"lena", "gary"}}
  /\ remote = NoRemote
  /\ USERS \in {UsersWithWaiver(w) : w \in UserWaivers}
  /\ VALUATION_CURVES = "loaded"
  /\ pc = "idle"
  /\ loan = raw
  /\ schedule = <<>>
  /\ balance = 0
  /\ calendarDate = NoMonth
  /\ i = 0
  /\ deferralRemaining = 0
  /\ deferralTotal = 0
  /\ purchaseMonth = NoMonth
  /\ originalMonthlyPayment = 0
  /\ log = <<>>
  /\ error = "none"
  /\ result = NoResult
  /\ today = StartMonth
  /\ borrower = NoBorrower
  /\ profile = SystemAssumptions
  /\ SCHOOLTIERS = NoSchoolTiers
  /\ vl = NoLocals
  /\ irr = NoIrr
  /\ callNo = 0
  /\ previous = NoResult
  /\ loans = <<>>
  /\ nextLoan = 0
  /\ totals = NoTotals
  /\ fn = "resolveFeeWaiverFlags"
  /\ out = NoOutput

\* resolveFeeWaiverFlags(userId, loan)
ResolveFeeWaiverFlagsCall ==
  /\ fn = "resolveFeeWaiverFlags"
  /\ pc = "idle"
  /\ out' = [kind |-> "flags",
             flags |-> resolveFeeWaiverFlags(USERS, loan.user, loan)]
  /\ pc' = "returned"
  /\ UNCHANGED <<entry, raw, loan, USERS, remote, VALUATION_CURVES, loopVars, log,
                 error, result, today, borrower, profile, SCHOOLTIERS, vl, irr,
                 callNo, previous, loans, nextLoan, totals, fn>>

WaiverNext == ResolveFeeWaiverFlagsCall

SpecWaivers == WaiverInit /\ [][WaiverNext]_vars

\* ------------------------------------------------------------------
\* worker.js and loadLoans.js: loading and saving through the worker
\* ------------------------------------------------------------------
\* the saves one client makes
MaxSaves == 2

Clients == {"A", "B"}

\* the files behind the POST endpoints
Endpoints == {"/loans", "/platformConfig", "/config", "/borrowers"}

\* the blob sha GitHub reports for a content: equal for equal contents,
\* different for different ones
ShaOf(content) == <<"sha", content>>

\* a client that has loaded nothing: sha: null
NoSha == <<"sha", "null">>

InitialContent(path) == <<path, 0>>

RemoteFile(content) == [content |-> content, sha |-> ShaOf(content)]

IdleClient ==
  [pc |-> "idle", path |-> "none", sha |-> NoSha, content |-> <<"none", 0>>,
   latestSha |-> NoSha, saves |-> 0]

WorkerInit ==
  /\ entry = "direct"
  /\ raw = BaseLoan
  /\ remote = [files |-> [path \in Endpoints |-> RemoteFile(InitialContent(path))],
               clients |-> [c \in Clients |-> IdleClient]]
  /\ USERS = UsersFallback
  /\ VALUATION_CURVES = "loaded"
  /\ pc = "idle"
  /\ loan = raw
  /\ schedule = <<>>
  /\ balance = 0
  /\ calendarDate = NoMonth
  /\ i = 0
  /\ deferralRemaining = 0
  /\ deferralTotal = 0
  /\ purchaseMonth = NoMonth
  /\ originalMonthlyPayment = 0
  /\ log = <<>>
  /\ error = "none"
  /\ result = NoResult
  /\ ValuationIdle

\* GET of an endpoint: loadFromGitHub, the content and its sha returned
\* to the client (loadLoans)
ClientLoad(c) ==
  /\ remote.clients[c].pc \in {"idle", "saved", "rejected"}
  /\ remote.clients[c].saves < MaxSaves
  /\ \E path \in Endpoints :
       remote' = [remote EXCEPT
                    !.clients[c].pc = "loaded",
                    !.clients[c].path = path,
                    !.clients[c].sha = remote.files[path].sha,
                    !.clients[c].content = remote.files[path].content]

\* saveLoans(loans, sha): the client posts its edited content with the
\* sha it loaded
ClientSave(c) ==
  /\ remote.clients[c].pc = "loaded"
  /\ remote' = [remote EXCEPT
                  !.clients[c].pc = "posted",
                  !.clients[c].content = <<c, remote.clients[c].saves + 1>>,
                  !.clients[c].saves = @ + 1]

\* saveToGitHub, "Get latest SHA to avoid conflicts": the sha of the
\* request is replaced by the sha the file has now
WorkerGetLatest(c) ==
  /\ remote.clients[c].pc = "posted"
  /\ remote' = [remote EXCEPT
                  !.clients[c].pc = "got",
                  !.clients[c].latestSha = remote.files[remote.clients[c].path].sha]

\* saveToGitHub when the GET does not succeed: latestSha stays oldSha
WorkerGetFails(c) ==
  /\ remote.clients[c].pc = "posted"
  /\ remote' = [remote EXCEPT
                  !.clients[c].pc = "got",
                  !.clients[c].latestSha = remote.clients[c].sha]

\* saveToGitHub, the PUT: GitHub replaces the file when the sha sent is
\* the sha of the file, and answers with an error otherwise
WorkerPut(c) ==
  /\ remote.clients[c].pc = "got"
  /\ LET path == remote.clients[c].path
     IN IF remote.clients[c].latestSha = remote.files[path].sha
        THEN remote' = [remote EXCEPT
                          !.files[path] = RemoteFile(remote.clients[c].content),
                          !.clients[c].sha = ShaOf(remote.clients[c].content),
                          !.clients[c].pc = "saved"]
        ELSE remote' = [remote EXCEPT !.clients[c].pc = "rejected"]

EnginesIdle ==
  UNCHANGED <<pc, entry, raw, loan, USERS, VALUATION_CURVES, loopVars, log,
              error, result, valuationVars>>

Load == (\E c \in Clients : ClientLoad(c)) /\ EnginesIdle
Save == (\E c \in Clients : ClientSave(c)) /\ EnginesIdle
GetLatest == (\E c \in Clients : WorkerGetLatest(c)) /\ EnginesIdle
GetFails == (\E c \in Clients : WorkerGetFails(c)) /\ EnginesIdle
Put == (\E c \in Clients : WorkerPut(c)) /\ EnginesIdle

WorkerNext == Load \/ Save \/ GetLatest \/ GetFails \/ Put

SpecWorker == WorkerInit /\ [][WorkerNext]_vars

\* ------------------------------------------------------------------
\* Properties of the amortization schedule
\* ------------------------------------------------------------------
Rows == DOMAIN schedule
Returned == pc = "done" /\ error = "none" /\ result.kind # "sentinel"
LastRow == schedule[Len(schedule)]

EventsOfType(t) == SelectSeq(loan.events, LAMBDA e : e.type = t)

\* the calendar month of the loan's start, and the 1-based month of the
\* contract a date falls in
StartMonthOf(ln) == ln.loanStartDate \div 100
ContractMonthOf(ln, date) == (date \div 100) - StartMonthOf(ln) + 1

\* C1: a row whose ending balance is 0, and a row flagged defaulted, is
\* the last row of the schedule: nothing is appended after it.
C1_TerminalClosed ==
  \A k \in Rows :
    (schedule[k].balance = 0 \/ schedule[k].defaulted) => k = Len(schedule)

\* the default event the claims C2 and C3 speak of, its month of the
\* contract and its recovery amount
TheDefault == Head(EventsOfType("default"))
DefaultK == ContractMonthOf(loan, TheDefault.date)
DefaultInContract ==
  /\ Returned
  /\ EventsOfType("default") # <<>>
  /\ DefaultK >= 1
  /\ DefaultK <= totalMonthsOf(loan)

\* the ending balance of the row before row k, in cents
BalanceBefore(k) ==
  IF k = 1 THEN ToFixed2(loan.principal) ELSE schedule[k - 1].balance

\* no row before row k ends with balance 0
PositiveBefore(k) == \A j \in Rows : j < k => schedule[j].balance > 0

\* C2: a default event dated in month k of the contract, the balance
\* still positive before month k: exactly k rows are returned, row k is
\* the defaulted terminal row, its recovery is min(balance,
\* recoveryAmount), and no other row is flagged defaulted.
C2_DefaultRowIsKth ==
  (DefaultInContract /\ PositiveBefore(DefaultK)) =>
    /\ Len(schedule) = DefaultK
    /\ schedule[DefaultK].defaulted
    /\ schedule[DefaultK].isTerminal
    /\ schedule[DefaultK].recovery =
         Min(BalanceBefore(DefaultK), ToFixed2(TheDefault.amount))
    /\ \A j \in Rows : j # DefaultK => ~schedule[j].defaulted

\* C2 witness: the default row is row 12, after a deferral and a
\* prepayment, with a partial recovery
C2_Witness ==
  /\ DefaultInContract
  /\ DefaultK = 12
  /\ Len(schedule) = 12
  /\ LastRow.defaulted
  /\ LastRow.recovery > 0
  /\ LastRow.balance > 0
  /\ \E j \in Rows : schedule[j].isDeferred
  /\ \E j \in Rows : schedule[j].prepayment > 0

\* C3: with recoveryAmount = 0 the balance recorded on the terminal
\* default row is 0.
C3_ZeroRecoveryZeroBalance ==
  (DefaultInContract /\ TheDefault.amount = 0 /\ LastRow.defaulted) =>
    LastRow.balance = 0

RECURSIVE SumScheduledPrincipal(_)
SumScheduledPrincipal(k) ==
  IF k = 0 THEN 0 ELSE schedule[k].scheduledPrincipal + SumScheduledPrincipal(k - 1)

Abs(x) == IF x >= 0 THEN x ELSE 0 - x

\* C4: positive level payment and no events: the scheduled principal of
\* all rows adds up to the original principal within one cent, and the
\* last row's balance is 0, for every graceYears.
C4_PrincipalSumsToOriginal ==
  (Returned /\ loan.events = <<>> /\ originalMonthlyPayment > 0
     /\ schedule # <<>>) =>
    /\ Abs(SumScheduledPrincipal(Len(schedule)) - ToFixed2(loan.principal)) <= 1
    /\ LastRow.balance = 0

\* C5: a row that is neither a deferral row nor the default row ends
\* with a balance no larger than the row before it.
C5_BalanceNonIncreasing ==
  \A k \in Rows :
    (k > 1 /\ ~schedule[k].isDeferred /\ ~schedule[k].defaulted) =>
      schedule[k].balance <= schedule[k - 1].balance

\* the loans C6 speaks of: only deferral events, all starting in the
\* loan's first month, a positive rate
RECURSIVE TotalMonths(_)
TotalMonths(es) == IF es = <<>> THEN 0 ELSE Head(es).amount + TotalMonths(Tail(es))

DeferralN == TotalMonths(loan.events)

DeferralFromFirstMonth ==
  /\ pc \in {"loop", "done"}
  /\ error = "none"
  /\ loan.events # <<>>
  /\ \A k \in DOMAIN loan.events :
       /\ loan.events[k].type = "deferral"
       /\ loan.events[k].date \div 100 = StartMonthOf(loan)
       /\ loan.events[k].amount >= 1
  /\ loan.nominalRate > 0
  /\ loan.principal > 0

\* the principal with j months of interest capitalized, in units
RECURSIVE Compounded(_)
Compounded(j) ==
  IF j = 0 THEN loan.principal
  ELSE The({b + TimesMonthlyRate(b, loan.nominalRate) : b \in {Compounded(j - 1)}})

SetupFeeDue ==
  LET userId == resolveUserForLoan(loan)
  IN /\ userId \in DOMAIN USERS
     /\ USERS[userId].role = "lender"
     /\ ~resolveFeeWaiverFlags(USERS, userId, loan).waiveSetup

\* the monthly servicing part of a fee charged on balance bal
ServicingPart(owned, bal) ==
  IF owned /\ ~resolveFeeWaiverFlags(USERS, resolveUserForLoan(loan), loan).waiveMonthly
  THEN getMonthlyServicingRate(bal, MonthlyServicingBps) ELSE 0

\* C7: when the setup fee is due, the row appended in a step carries the
\* setup fee in feeThisMonth exactly if it is the first row with
\* isOwned = true; so exactly one row carries it, the first owned one.
C7_SetupFeeOnFirstOwnedRow ==
  [][(pc = "loop" /\ Len(schedule') = Len(schedule) + 1 /\ SetupFeeDue) =>
       LET r == schedule'[Len(schedule')]
       IN (r.feeThisMonth =
             ToFixed2(SetupFee * Unit + ServicingPart(r.isOwned, balance)))
          <=> (r.isOwned /\ \A j \in Rows : ~schedule[j].isOwned)]_vars

\* the purchase month C8 names, read off the stored record
WellFormedDate(d) == IsISO(d) \/ IsUS(d)
MonthOfWellFormed(d) == IF IsUS(d) THEN (d - USBase) \div 100 ELSE d \div 100

LotMonths(l) ==
  {MonthOfWellFormed(l.ownershipLots[k].purchaseDate) :
     k \in {n \in DOMAIN l.ownershipLots :
              WellFormedDate(l.ownershipLots[n].purchaseDate)}}

ResolvedPurchaseMonth(l) ==
  IF WellFormedDate(l.purchaseDate) THEN MonthOfWellFormed(l.purchaseDate)
  ELSE IF LotMonths(l) # {}
  THEN CHOOSE m \in LotMonths(l) : \A n \in LotMonths(l) : m <= n
  ELSE StartMonthOf(l)

PurchaseDateMissing(d) == d \in {DUndefined, DNull, DEmpty}

Logged(msg) == \E k \in DOMAIN log : log[k] = msg

\* C9: a missing purchase date and an unparseable one both make the start
\* date the purchase date without raising; the diagnostic is logged for
\* the unparseable one and for none of the missing ones.
C9_PurchaseDateFallback ==
  (entry = "direct" /\ pc # "call" /\ IsISO(loan.loanStartDate)) =>
    /\ PurchaseDateMissing(loan.purchaseDate) =>
         /\ error = "none"
         /\ purchaseMonth = StartMonthOf(loan)
         /\ ~Logged("Invalid purchaseDate")
    /\ (loan.purchaseDate = DMalformed \/ IsUS(loan.purchaseDate)) =>
         /\ error = "none"
         /\ purchaseMonth = StartMonthOf(loan)
         /\ Logged("Invalid purchaseDate")

\* C10: valueLoan returns the sentinel, without raising, for a principal
\* <= 0, a rate <= 0 or a term termYears*12 + graceYears*12 <= 0, with
\* the curves loaded or not.
C10_SentinelForInvalidBasics ==
  (entry = "valueLoan" /\ pc # "raw"
     /\ (raw.principal <= 0 \/ raw.nominalRate <= 0
           \/ raw.termYears * 12 + raw.graceYears * 12 <= 0)) =>
    /\ error = "none"
    /\ result.riskTier = "UNKNOWN"
    /\ result.npv = "NaN"
    /\ result.discountRate = "null"

\* ------------------------------------------------------------------
\* Properties of the valuation
\* ------------------------------------------------------------------
\* valueLoan is past the closed-form test
PastClosedForm == entry = "valueLoan" /\ pc \in {"risk", "cashflow", "raised", "returned"}

\* the current ledger row has balance 0, or is the last row of the
\* schedule
NoMonthsRemain ==
  /\ CurrentIndex(schedule, today) > 0
  /\ \/ schedule[CurrentIndex(schedule, today)].balance = 0
     \/ CurrentIndex(schedule, today) = Len(schedule)

\* C11: when the current ledger row has balance 0 or is the last row of
\* the schedule, valueLoan returns the closed-form zero valuation
\* (npv 0, expectedLoss 0) and the monthly cash-flow loop is not run.
C11_ClosedFormWhenNoMonthsRemain ==
  (PastClosedForm /\ NoMonthsRemain) =>
    /\ pc = "returned"
    /\ result.kind = "zero"
    /\ result.npv = 0
    /\ result.expectedLoss = 0
    /\ vl.m = 0

\* valueLoan returned a full valuation
Valued == entry = "valueLoan" /\ pc = "returned" /\ result.kind = "valued"

\* C12: at the end of the monthly simulation totalRecoveries equals
\* recoveryPct x totalDefaults (each defaulted amount's recovery is
\* counted exactly once), whatever the recovery lag; the tolerance is
\* half a unit of rounding for each simulated month.
C12_RecoveriesCountedOnce ==
  Valued =>
    Abs(100 * vl.totalRecoveries - vl.recoveryPct * vl.totalDefaults)
      <= 50 * vl.termMonths

\* the cash-flow simulation of valueLoan has its discount rate
RiskPriced == entry = "valueLoan" /\ pc \in {"cashflow", "returned"} /\ vl.m > 0

\* C13: the risk premium added to the effective risk-free rate is
\* min(500, base + FICO + degree + school + year + graduate adjustments)
\* basis points, so the discount rate never exceeds the effective
\* risk-free rate by more than 0.05; the returned discountRate is that
\* rate.
C13_RiskPremiumCapped ==
  RiskPriced =>
    /\ vl.discountRate - vl.effectiveRiskFreeRate = Min(500, vl.totalRiskBps)
    /\ vl.discountRate - vl.effectiveRiskFreeRate <= 500
    /\ Valued => result.discountRate = vl.discountRate

\* a valuation whose uncapped premium is above 500 basis points
C13_Witness == Valued /\ vl.totalRiskBps > 500 /\ vl.cappedRiskBps = 500

\* the curve of the valuation's risk tier
TierCurve == RiskTiers(VALUATION_CURVES)[vl.riskTier]

\* the entries of a monthly vector after the span of its curve repeat
\* the entry of the curve's last month
RepeatsLast(monthly, years) ==
  \A k \in 1..Len(monthly) :
    (years > 0 /\ k > 12 * years) => monthly[k] = monthly[12 * years]

ReferenceYears(year) ==
  IF year \in {"3", "4", "5", "6", "7", "8", "9", "A", "a", "B", "b", "C", "c", "D", "d"}
  THEN 3 ELSE 1

ReferenceBlended(b) ==
  IF 7 * b.borrowerFico + 3 * b.cosignerFico > 10 * b.borrowerFico
  THEN 7 * b.borrowerFico + 3 * b.cosignerFico
  ELSE 10 * b.borrowerFico

ReferenceTier(b) ==
  LET blended == ReferenceBlended(b)
  IN IF blended >= 7800 THEN "LOW"
     ELSE IF blended >= 7600 /\ ReferenceYears(b.yearInSchool) >= 3 THEN "LOW"
     ELSE IF blended >= 7200 THEN "MEDIUM"
     ELSE IF blended >= 6400 THEN "HIGH"
     ELSE "VERY_HIGH"

\* C15: deriveRiskTier equals the reference mapping for every borrower
\* score, cosigner score and year in school: blended = max(borrower,
\* 0.7 borrower + 0.3 cosigner); A from 760, B from 720, C from 680, D
\* from 640; A with three years or more is LOW, A and B are MEDIUM, C
\* and D are HIGH, the rest VERY_HIGH; a blended score from 780 is LOW
\* for every year; an unrecognized year counts as the first year.
C15_RiskTierReference ==
  fn = "deriveRiskTier" => out = ReferenceTier(borrower)

\* a borrower in band A below 780 with an unrecognized year: MEDIUM
C15_Witness ==
  /\ fn = "deriveRiskTier"
  /\ ReferenceBlended(borrower) >= 7600
  /\ ReferenceBlended(borrower) < 7700
  /\ borrower.yearInSchool = "X"
  /\ out = "MEDIUM"

\* the identifier is given and is not a key of the school table
UnmatchedIdentifier ==
  /\ borrower.opeid \notin {"null", ""}
  /\ Trim(borrower.opeid) \notin DOMAIN SCHOOLTIERS.table

\* C16: getSchoolTier returns "Tier 3" for every identifier that is not
\* in the school table, whatever the DEFAULT record holds and whether
\* or not there is one, and does not raise.
C16_UnmatchedSchoolIsTier3 ==
  (fn = "getSchoolTier" /\ UnmatchedIdentifier) => out = "Tier 3"

\* ------------------------------------------------------------------
\* Properties of calculateIRR
\* ------------------------------------------------------------------
\* calculateIRR has returned after the loop ran out of passes
NotConverged == fn = "calculateIRR" /\ pc = "returned" /\ irr.i >= MAX_ITER

\* C17: calculateIRR returns not-a-number whenever the bisection does
\* not bring the residual under 1e-6 within 100 passes (the cash flows
\* sum to less than the principal, or the monthly rate is above 1);
\* it never returns a finite rate then.
C17_NaNWhenNotConverged ==
  NotConverged => out = "NaN"

\* ------------------------------------------------------------------
\* Properties of repeated and batched valuation
\* ------------------------------------------------------------------
\* C18: two calls of valueLoan with the same loan, borrower, curves and
\* assumptions return the same npv, irr and wal: the second call ends
\* as the first did, whatever the wall clock read inside the call and
\* whatever module state was replaced between the calls.
C18_SameArgumentsSameResult ==
  (callNo = 1 /\ CallOver) =>
    /\ Outcome.kind = previous.kind
    /\ Outcome.kind \in {"valued", "zero"} =>
         /\ Outcome.npv = previous.npv
         /\ Outcome.irr = previous.irr
         /\ Outcome.wal = previous.wal

\* computePortfolioValuation is over
PortfolioOver == InPortfolio /\ pc = "over"

\* C19: computePortfolioValuation is resilient to one loan failing: when
\* valueLoan or buildAmortSchedule raises for a loan of the batch, the
\* call still returns the totals of the other loans, the failing loan
\* contributing 0.
C19_BatchSurvivesFailingLoan ==
  PortfolioOver => out.kind = "totals"

\* C20: every total returned by computePortfolioValuation is a finite
\* number for every batch: a loan valued by the sentinel or by the
\* closed-form zero valuation contributes 0 to the weighted sums.
C20_TotalsFinite ==
  (PortfolioOver /\ out.kind = "totals") => out.nonFinite = {}

\* ------------------------------------------------------------------
\* C21: valueLoan, getSchoolTier and computePortfolioValuation leave
\* every shared input unchanged: no step of a valuation changes the
\* loaded curve table, the school-tier table, the assumptions or the
\* loan records passed in
\* ------------------------------------------------------------------
C21_SharedInputsUnchanged ==
  [][/\ VALUATION_CURVES' = VALUATION_CURVES
     /\ SCHOOLTIERS' = SCHOOLTIERS
     /\ profile' = profile
     /\ loans' = loans]_vars

\* ------------------------------------------------------------------
\* Properties of the earnings schedule
\* ------------------------------------------------------------------
EarningsReturned == fn = "buildEarningsSchedule" /\ out.kind = "rows"

\* the user's lots that have a purchase month, and those bought in or
\* before a month
DatedLots ==
  {k \in DOMAIN raw.ownershipLots :
     /\ raw.ownershipLots[k].user = raw.user
     /\ IsISO(raw.ownershipLots[k].purchaseDate)}

PurchaseMonth(k) == raw.ownershipLots[k].purchaseDate \div 100

LotsBoughtBy(month) == {k \in DatedLots : PurchaseMonth(k) <= month}

\* C22: the ownershipPct of a returned row is the sum of pct of the
\* user's lots whose purchase month is on or before the row's month;
\* the rows are in month order with ownershipPct non-decreasing, and no
\* row is dated before the purchase month of the user's earliest lot
C22_OwnershipPctBySeniority ==
  EarningsReturned =>
    /\ \A p \in DOMAIN out.rows :
         /\ out.rows[p].ownershipPct =
              SumOver([k \in DOMAIN raw.ownershipLots |-> raw.ownershipLots[k].pct],
                      LotsBoughtBy(out.rows[p].loanDate))
         /\ \A k \in DatedLots :
              (\A j \in DatedLots : PurchaseMonth(k) <= PurchaseMonth(j))
                => out.rows[p].loanDate >= PurchaseMonth(k)
    /\ \A p, q \in DOMAIN out.rows :
         p < q => /\ out.rows[p].loanDate < out.rows[q].loanDate
                  /\ out.rows[p].ownershipPct <= out.rows[q].ownershipPct

\* a schedule whose first months are not owned and whose share grows
\* when a second lot is bought
C22_Witness ==
  /\ EarningsReturned
  /\ Len(out.rows) >= 2
  /\ Len(out.rows) < Len(schedule)
  /\ out.rows[1].ownershipPct < out.rows[Len(out.rows)].ownershipPct
  /\ out.rows[1].loanDate = PurchaseMonth(CHOOSE k \in DatedLots :
                               \A j \in DatedLots : PurchaseMonth(k) <= PurchaseMonth(j))

\* ------------------------------------------------------------------
\* Properties of the ownership model
\* ------------------------------------------------------------------
Normalized == fn = "normalizeOwnership" /\ pc = "returned"

MarketEntries ==
  {k \in DOMAIN loan.ownership.allocations :
     loan.ownership.allocations[k].user = MARKET_USER}

\* C23: after normalizeOwnership the allocations hold exactly one Market
\* entry, their percents total 100, and Market holds what is not
\* assigned to the other users
C23_AllocationsTotal100 ==
  Normalized =>
    /\ Cardinality(MarketEntries) = 1
    /\ SumPercent(loan.ownership.allocations) = 100
    /\ \A k \in MarketEntries :
         loan.ownership.allocations[k].percent =
           100 - SumPercent(SelectSeq(loan.ownership.allocations, NotMarket))

\* ------------------------------------------------------------------
\* Properties of the fee waivers
\* ------------------------------------------------------------------
FlagsResolved == fn = "resolveFeeWaiverFlags" /\ pc = "returned"

LoanWaiverSet == loan.feeWaiver \notin {"none", "", "null"}

\* the flags a waiver string stands for
FlagsOfWaiver(w) ==
  [waiveSetup |-> WaiverTokens(w) \cap {"setup", "all"} # {},
   waiveMonthly |-> WaiverTokens(w) \cap {"grace", "all"} # {},
   waiveAll |-> "all" \in WaiverTokens(w)]

\* C24: a loan-level waiver other than "none" overrides the user-level
\* waiver: the flags returned are the same for every user-level waiver;
\* the user-level waiver decides them only when the loan has none
C24_LoanWaiverOverridesUser ==
  FlagsResolved =>
    /\ LoanWaiverSet =>
         /\ out.flags = FlagsOfWaiver(loan.feeWaiver)
         /\ \A w \in UserWaivers :
              out.flags = resolveFeeWaiverFlags(UsersWithWaiver(w), loan.user, loan)
    /\ ~LoanWaiverSet =>
         out.flags = FlagsOfWaiver(getUserFeeWaiver(USERS, loan.user))

\* the loan waives the setup fee and the user everything: the loan wins
C24_Witness ==
  /\ FlagsResolved
  /\ loan.feeWaiver = "setup"
  /\ loan.user = "lena"
  /\ USERS["lena"].feeWaiver = "all"
  /\ out.flags = [waiveSetup |-> TRUE, waiveMonthly |-> FALSE, waiveAll |-> FALSE]

\* ------------------------------------------------------------------
\* Properties of the month loop
\* ------------------------------------------------------------------
\* C25: a schedule has at most graceYears*12 + termYears*12 rows, months
\* of a deferral included; monthIndex runs 1, 2, ..., n in order; every
\* row is dated one calendar month after the row before it, the first
\* in the month the loan starts
C25_RowsBoundedAndConsecutive ==
  schedule # <<>> =>
    /\ Len(schedule) <= loan.graceYears * 12 + loan.termYears * 12
    /\ \A k \in Rows : schedule[k].monthIndex = k
    /\ schedule[1].loanDate = loan.loanStartDate \div 100
    /\ \A k \in Rows \ {1} : schedule[k].loanDate = schedule[k - 1].loanDate + 1

\* a schedule that ran to the last contractual month with months of a
\* deferral in it and a balance left
C25_Witness ==
  /\ pc = "done"
  /\ error = "none"
  /\ Len(schedule) = loan.graceYears * 12 + loan.termYears * 12
  /\ Len(schedule) > 12
  /\ \E k \in Rows : schedule[k].isDeferred
  /\ LastRow.balance > 0

\* the balance at the start of row k, in cents
OpeningBalance(k) ==
  IF k = 1 THEN loan.principal \div (Unit \div 100) ELSE schedule[k - 1].balance

\* the balance of row k before its prepayments, in cents as the row
\* reports it: after capitalization in a deferral, after the interest
\* added in a grace month, after the scheduled principal otherwise
BeforePrepayments(k) ==
  IF schedule[k].isDeferred THEN OpeningBalance(k) + schedule[k].accruedInterest
  ELSE IF schedule[k].payment = 0 THEN OpeningBalance(k) + schedule[k].interest
  ELSE OpeningBalance(k) - schedule[k].scheduledPrincipal

\* C26: in every row the prepayment principal applied is at most the
\* balance left after the month's scheduled principal (after the
\* capitalization in a deferral), however many events fall in the
\* month and however large; the ending balance of every row is >= 0.
\* The four amounts compared are rounded to the cent: 2 cents of slack.
C26_PrepaymentWithinBalance ==
  \A k \in Rows :
    /\ schedule[k].balance >= 0
    /\ ~schedule[k].defaulted =>
         /\ schedule[k].prepaymentPrincipal >= 0
         /\ schedule[k].prepaymentPrincipal <= BeforePrepayments(k) + 2

\* two prepayments of 600 in one month, the second cut to what is left
C26_Witness ==
  /\ pc = "done"
  /\ error = "none"
  /\ \E k \in Rows :
       /\ Len(PrepayEventsOf(loan.events, schedule[k].loanDate)) = 2
       /\ schedule[k].prepaymentPrincipal > 60000
       /\ schedule[k].prepaymentPrincipal < 120000
       /\ schedule[k].balance = 0

\* ------------------------------------------------------------------
\* Properties of the simulated months
\* ------------------------------------------------------------------
\* the simulated month lies inside the grace window counted from the
\* loan start: the current row is month currentIndex of the loan
InGraceWindow(month) == vl.currentIndex + month <= graceMonthsOf(loan)

\* C27: in the monthly simulation of valueLoan the payment is interest
\* only (no scheduled principal) exactly in the simulated months that
\* still lie inside the grace window counted from the loan start
C27_InterestOnlyInsideGraceWindow ==
  entry = "valueLoan" /\ pc \in {"cashflow", "irr", "returned"} =>
    \A k \in DOMAIN vl.monthlySchedule :
      (vl.monthlySchedule[k].scheduledPrincipal = 0)
        <=> InGraceWindow(vl.monthlySchedule[k].month)

\* ------------------------------------------------------------------
\* Properties of the risk breakdown
\* ------------------------------------------------------------------
\* C28: in every full result of valueLoan the components of the risk
\* breakdown add up to its total, also when the profile overrides the
\* tier's risk premium
C28_RiskBreakdownAddsUp ==
  entry = "valueLoan" /\ pc = "returned" /\ result.kind = "valued" =>
    result.riskBreakdown.baseRiskBps + result.riskBreakdown.ficoAdj
      + result.riskBreakdown.degreeAdj + result.riskBreakdown.schoolAdj
      + result.riskBreakdown.yearAdj + result.riskBreakdown.gradAdj
    = result.riskBreakdown.totalRiskBps

\* ------------------------------------------------------------------
\* Properties of the worker
\* ------------------------------------------------------------------
\* the save of client c replaces the file in this step
Replaces(c) ==
  /\ remote.clients[c].pc = "got"
  /\ remote'.clients[c].pc = "saved"

\* C29: a save that carries a stale sha never overwrites another
\* client's change: a save replaces the file only when the sha the
\* client loaded is still the sha of the file
C29_StaleSaveRejected ==
  [][\A c \in Clients :
       Replaces(c) => remote.clients[c].sha = remote.files[remote.clients[c].path].sha]_vars

\* ------------------------------------------------------------------
\* Properties of the risk tier under better credit
\* ------------------------------------------------------------------
\* the tiers in the order LOW < MEDIUM < HIGH < VERY_HIGH
TierRank(tier) ==
  CASE tier = "LOW" -> 0
    [] tier = "MEDIUM" -> 1
    [] tier = "HIGH" -> 2
    [] OTHER -> 3

TierDerived == fn = "deriveRiskTier"

\* C30: with the year in school fixed, a higher borrower FICO or a
\* higher cosigner FICO never gives a riskier tier, and the blended
\* score is never below the borrower's own FICO
C30_TierMonotoneInFico ==
  TierDerived =>
    /\ \A f \in FicoChoices :
         f >= borrower.borrowerFico =>
           TierRank(deriveRiskTier([borrower EXCEPT !.borrowerFico = f]))
             <= TierRank(out)
    /\ \A c \in CosignerChoices \cup FicoChoices :
         c >= borrower.cosignerFico =>
           TierRank(deriveRiskTier([borrower EXCEPT !.cosignerFico = c]))
             <= TierRank(out)
    /\ blendedFico(borrower) >= 10 * borrower.borrowerFico

\* a borrower of the HIGH tier whom a stronger cosigner lifts to a
\* better tier, and whose own higher score does so too
C30_Witness ==
  /\ TierDerived
  /\ out = "HIGH"
  /\ \E c \in CosignerChoices :
       /\ c > borrower.cosignerFico
       /\ TierRank(deriveRiskTier([borrower EXCEPT !.cosignerFico = c])) < TierRank(out)
  /\ \E f \in FicoChoices :
       /\ f > borrower.borrowerFico
       /\ TierRank(deriveRiskTier([borrower EXCEPT !.borrowerFico = f])) < TierRank(out)

====
